---- MODULE Spec2Model ----
(***************************************************************************)
(* The deployment lifecycle engine of the kubernetes-model-scaler:         *)
(* the v2 start and stop routes (router/start_route_v2.py,                 *)
(* router/stop_route_v2.py) driving the Deployer mixins of deployer2/      *)
(* against a ZooKeeper znode tree and the serving cluster's API.           *)
(* Every kazoo call and every Kubernetes API call is one step; each may    *)
(* raise.                                                                  *)
(***************************************************************************)
EXTENDS Integers, Sequences, FiniteSets, TLC

\* ------------------------------------------------------------------ bounds
\* Iterations of the readiness loop before its deadline (timeout/polling_interval).
MaxPolls == 5
\* Answered requests a worker's caller remembers, latest last.
MaxServed == 2
\* Node pools declared in the node pool configuration.
MaxPools == 2
\* Length of a znode's value, in the pieces of ZnodeBytes.
MaxBytes == 3
\* Letters after the digits of a memory string.
MaxSuffix == 2

\* ------------------------------------------------------- program constants
\* kserve_mixin.py: `if failed_lb_ip_acquisition_count > 3`
FailedLbLimit == 3

\* ------------------------------------------------------------- the universe
\* DeployerConfig: model (short name) given with the model_id in the request.
ModelName(id) == IF id = "A" THEN "alpha" ELSE "beta"
ModelType(id) == "TEXT"
ModelRepoId(id) == IF id = "A" THEN "org/alpha" ELSE "org/beta"
Stages == {"warming", "active", "cooling"}
\* External addresses the cloud may assign to a LoadBalancer service.
Addrs == {"10.0.0.1", "10.0.0.2"}

VARIABLES
    zk,     \* znode tree: zk[<<stage, id>>] = [exists, data] for /models/{stage}/{id}
    isvc,   \* InferenceService custom objects of the serving namespace, by name
    lb,     \* Services `{name}-lb` of the serving namespace, by model name
    external, \* ExternalName services `{name}-external`, by model name
    ingress,  \* Ingress objects `{name}-ingress`, by model name
    proc,   \* per worker: the request it runs and where it is in it
    api,    \* outcomes a call to ZooKeeper or to the cluster API can have
            \* (TRUE: it answers, FALSE: it fails)
    call    \* a call of one of the helper functions: its arguments and result

vars == <<zk, isvc, lb, external, ingress, proc, api, call>>

\* The universe is fixed by the initial state: the workers that serve requests,
\* the model ids that are requested and the names of their cluster objects.
Workers == DOMAIN proc
ModelIds == {path[2] : path \in DOMAIN zk}
ModelNames == DOMAIN isvc

\* ------------------------------------------------------------ znode payload
\* kazoo's ensure_path creates a node with the empty value b"".
EmptyData ==
    [fmt |-> "empty", ip |-> "", model_name |-> "", model_type |-> "",
     model_repo_id |-> "", deployment_type |-> ""]

NoNode == [exists |-> FALSE, data |-> EmptyData]

\* A znode written in the legacy format: the bare address, no JSON.
LegacyData(ip) ==
    [fmt |-> "legacy", ip |-> ip, model_name |-> "", model_type |-> "",
     model_repo_id |-> "", deployment_type |-> ""]

\* `f"{lb_ip}:80"`
Endpoint(lb_ip) == lb_ip \o ":80"

\* ZookeeperMixin._create_zk_data, after the load balancer address was obtained:
\* json.dumps of the five keys.
create_zk_data(r, stage, lb_ip) ==
    [fmt |-> "json",
     ip |-> IF stage = "active" THEN Endpoint(lb_ip)
            ELSE IF stage = "warming" THEN "WARMING" ELSE "COOLING",
     model_name |-> r.model_name, model_type |-> r.model_type,
     model_repo_id |-> r.model_repo_id, deployment_type |-> "kserve"]

\* The Deployer fields of a Start request for id.
StartRequest(id) ==
    [model_name |-> ModelName(id), model_type |-> ModelType(id),
     model_repo_id |-> ModelRepoId(id)]

\* The znode of a stage as an earlier request, or an earlier release of the
\* service, may have left it.
ZnodeKinds == {"none", "empty", "legacy", "json"}

ZnodeOf(kind, stage, id) ==
    CASE kind = "none" -> NoNode
      [] kind = "empty" -> [exists |-> TRUE, data |-> EmptyData]
      [] kind = "legacy" -> [exists |-> TRUE, data |-> LegacyData("10.1.2.3")]
      [] OTHER -> [exists |-> TRUE,
                   data |-> create_zk_data(StartRequest(id), stage, "10.0.0.1")]

\* ------------------------------------------------------------ kazoo client
\* Variant: the znodes of a stage are not told apart by model_id.
Path_of_stage(stage, id) == <<stage, "A">>

\* `f"/models/{stage}/{self.model_id}"`
Path(stage, id) == <<stage, id>>

zk_exists(path) == zk[path].exists

\* ensure_path: create the node with an empty value unless it exists.
zk_ensure_path(path) ==
    IF zk[path].exists THEN zk
    ELSE [zk EXCEPT ![path] = [exists |-> TRUE, data |-> EmptyData]]

\* set: the node must exist (NoNodeError otherwise, decided by the caller).
zk_set(path, data) == [zk EXCEPT ![path] = [exists |-> TRUE, data |-> data]]

\* Variant: the delete is lost.
zk_delete_lost(path) == zk

\* delete: the node is removed.
zk_delete(path) == [zk EXCEPT ![path] = NoNode]

\* ------------------------------------------------------------ cluster API
NoIsvc == [exists |-> FALSE, model_id |-> ""]
NoLb == [exists |-> FALSE, addr |-> "", model_id |-> ""]

\* ------------------------------------------------------------- placement
\* Pool inventory: available (limits) cpu in centi-cores, memory in GiB, gpu,
\* and the declared gpu count of gpu_specs, in declared order; missing is a
\* declared pool the cluster does not have (get_pool_resources gives None).
PoolT4Free == [missing |-> FALSE, gpu_count |-> 1, cpu |-> 1400, mem |-> 48, gpu |-> 1]
PoolT4Full == [missing |-> FALSE, gpu_count |-> 1, cpu |-> 100, mem |-> 4, gpu |-> 0]
PoolCpu == [missing |-> FALSE, gpu_count |-> 0, cpu |-> 800, mem |-> 32, gpu |-> 0]
Inventories == {<<PoolCpu, PoolT4Free>>, <<PoolCpu, PoolT4Full>>}

\* parse_deployment_resources of the model's manifest: 2 CPU / 8 GiB / 1 GPU.
Ask(id) == [cpu |-> 200, mem |-> 8, gpu |-> 1]

\* Variant: the declared gpu count of the pool is not looked at.
PoolFits_any_pool(ask, pool) ==
    /\ ~pool.missing
    /\ pool.gpu >= ask.gpu
    /\ pool.mem >= ask.mem
    /\ pool.cpu >= ask.cpu

\* Variant: pools with declared gpus are kept for the asks that need one.
PoolFits_gpu_reserved(ask, pool) ==
    /\ ~pool.missing
    /\ (ask.gpu > 0) = (pool.gpu_count > 0)
    /\ pool.gpu >= ask.gpu
    /\ pool.mem >= ask.mem
    /\ pool.cpu >= ask.cpu

\* The body of find_suitable_pool's loop: a pool without data is passed over,
\* so is a pool without declared gpus when the ask needs one; otherwise the
\* three available quantities are compared with the ask.
PoolFits(ask, pool) ==
    /\ ~pool.missing
    /\ ~(ask.gpu > 0 /\ ~(pool.gpu_count > 0))
    /\ pool.gpu >= ask.gpu
    /\ pool.mem >= ask.mem
    /\ pool.cpu >= ask.cpu

RECURSIVE find_suitable_pool_from(_, _, _)
find_suitable_pool_from(ask, pools, i) ==
    IF i > Len(pools) THEN 0
    ELSE IF PoolFits(ask, pools[i]) THEN i
    ELSE find_suitable_pool_from(ask, pools, i + 1)

\* ResourceAnalyzer.find_suitable_pool: the pools are gone through in declared
\* order and the first that fits is returned (its index; 0 is (None, False)).
find_suitable_pool(ask, pools) == find_suitable_pool_from(ask, pools, 1)

\* ResourceAnalyzer.can_deploy
can_deploy(ask, pools) == find_suitable_pool(ask, pools) # 0

\* ------------------------------------------------------------ the workers
\* A worker's request: the Deployer's fields (DeployerConfig.__init__), the saga's
\* completed-step flags (deployment_manager), the locals of the function being
\* run, and a record of this request so far: the functions called (calls), the
\* exceptions raised as <<phase, function>> (raises), why the readiness gate
\* returned (gate_exit), and whether no pool fitted when it began (no_fit);
\* error is the exception on its way to the caller.
\* served is what the callers of this worker were answered before this request:
\* <<op, model_id, result>>, latest last.
Idle ==
    [op |-> "none", phase |-> "", fn |-> "", pc |-> "idle",
     model_id |-> "", model_name |-> "", model_type |-> "", model_repo_id |-> "",
     flags |-> {}, original_state |-> "", original_data |-> EmptyData,
     model_ready |-> FALSE, polls |-> 0, failed |-> 0, lb_ip |-> "",
     model_data_none |-> FALSE, no_fit |-> FALSE, result |-> "",
     gate_exit |-> "", calls |-> <<>>, raises |-> <<>>, served |-> <<>>,
     error |-> <<>>, streak |-> 0, in_flight |-> FALSE]

\* The last MaxServed answers, the answer to r's request included.
Served(r) ==
    LET all == Append(r.served, <<r.op, r.model_id, r.result>>) IN
    IF Len(all) > MaxServed THEN SubSeq(all, Len(all) - MaxServed + 1, Len(all))
    ELSE all

\* The first step of each function.
Entry(fn) ==
    CASE fn = "register_warming_model" -> "ensure_path"
      [] fn = "apply_yaml" -> "download"
      [] fn = "create_load_balancer" -> "read"
      [] fn = "wait_for_model_ready" -> "poll"
      [] fn = "register_active_model" -> "exists"
      [] fn = "register_cooling_model" -> "exists_active"
      [] fn = "remove_inference_service" -> "get"
      [] fn = "remove_load_balancer" -> "read"
      [] fn = "remove_external_name_service" -> "read"
      [] fn = "remove_ingress" -> "read"
      [] fn = "restore_original_state" -> "check"
      [] fn = "cleanup_deployment" -> "active"
      [] OTHER -> "exists"

Call(r, fn) ==
    [r EXCEPT !.fn = fn, !.pc = Entry(fn), !.calls = Append(@, fn),
              !.model_data_none = FALSE, !.lb_ip = ""]

\* The request has returned to its caller: result is what the caller sees.
Done(r, result) ==
    [r EXCEPT !.fn = "", !.pc = "done", !.result = result,
              !.model_data_none = FALSE, !.lb_ip = "", !.polls = 0, !.failed = 0]

\* cleanup_deployment: the compensation after the one at `at`.
CleanupAt(r, at) == [r EXCEPT !.fn = "cleanup_deployment", !.pc = at,
                              !.model_data_none = FALSE, !.lb_ip = ""]

\* An exception of r.fn is logged.
Logged(r) == [r EXCEPT !.raises = Append(@, <<r.phase, r.fn>>)]

\* An exception of r.fn leaves the block it was raised in: it is the exception
\* the caller of the route gets unless another one takes its place.
Thrown(r) == [Logged(r) EXCEPT !.error = <<r.phase, r.fn>>]

\* Variant: a readiness gate that gave False fails the saga.
StartForwardNext_ready_required(r) ==
    CASE r.fn = "register_warming_model" ->
            Call([r EXCEPT !.flags = @ \cup {"warming_registered"}], "apply_yaml")
      [] r.fn = "apply_yaml" ->
            Call([r EXCEPT !.flags = @ \cup {"yaml_applied"}], "create_load_balancer")
      [] r.fn = "create_load_balancer" ->
            Call([r EXCEPT !.flags = @ \cup {"load_balancer_created"}],
                 "wait_for_model_ready")
      [] r.fn = "wait_for_model_ready" ->
            IF r.model_ready THEN Call(r, "register_active_model")
            ELSE CleanupAt([Thrown(r) EXCEPT !.phase = "cleanup"], "active")
      [] OTHER ->
            Done([r EXCEPT !.flags = @ \cup {"active_registered"}], "success")

\* Variant: the active znode is registered before the readiness gate is called.
StartForwardNext_registers_before_gate(r) ==
    CASE r.fn = "register_warming_model" ->
            Call([r EXCEPT !.flags = @ \cup {"warming_registered"}], "apply_yaml")
      [] r.fn = "apply_yaml" ->
            Call([r EXCEPT !.flags = @ \cup {"yaml_applied"}], "create_load_balancer")
      [] r.fn = "create_load_balancer" ->
            Call([r EXCEPT !.flags = @ \cup {"load_balancer_created"}],
                 "register_active_model")
      [] r.fn = "register_active_model" ->
            Call([r EXCEPT !.flags = @ \cup {"active_registered"}],
                 "wait_for_model_ready")
      [] OTHER -> Done(r, "success")

\* start_model.blocking_deployment (lines 109-141): what follows the return of fn.
StartForwardNext(r) ==
    CASE r.fn = "register_warming_model" ->
            Call([r EXCEPT !.flags = @ \cup {"warming_registered"}], "apply_yaml")
      [] r.fn = "apply_yaml" ->
            Call([r EXCEPT !.flags = @ \cup {"yaml_applied"}], "create_load_balancer")
      [] r.fn = "create_load_balancer" ->
            Call([r EXCEPT !.flags = @ \cup {"load_balancer_created"}],
                 "wait_for_model_ready")
      [] r.fn = "wait_for_model_ready" -> Call(r, "register_active_model")
      [] OTHER ->
            Done([r EXCEPT !.flags = @ \cup {"active_registered"}], "success")

\* cleanup_deployment (lines 47-89): each compensation is followed by the next
\* one, whether it returned or raised.
CleanupNext(r) ==
    CASE r.fn = "unregister_active_model" -> CleanupAt(r, "load_balancer")
      [] r.fn = "remove_load_balancer" -> CleanupAt(r, "inference_service")
      [] r.fn = "remove_inference_service" -> CleanupAt(r, "warming")
      [] OTHER -> Done(r, "error")

\* Variant: the active znode is not unregistered after the removals.
StopForwardNext_keeps_active(r) ==
    CASE r.fn = "remove_inference_service" -> Call(r, "remove_load_balancer")
      [] r.fn = "remove_load_balancer" -> Call(r, "unregister_warming_model")
      [] r.fn = "unregister_warming_model" -> Call(r, "unregister_cooling_model")
      [] OTHER -> Done(r, "success")

\* Variant: the znodes are unregistered before the load balancer is removed.
StopForwardNext_unregisters_first(r) ==
    CASE r.fn = "remove_inference_service" -> Call(r, "unregister_warming_model")
      [] r.fn = "unregister_warming_model" -> Call(r, "unregister_active_model")
      [] r.fn = "unregister_active_model" -> Call(r, "remove_load_balancer")
      [] r.fn = "remove_load_balancer" -> Call(r, "unregister_cooling_model")
      [] OTHER -> Done(r, "success")

\* Variant: the cooling znode is not unregistered at the end of the Stop.
StopForwardNext_keeps_cooling(r) ==
    CASE r.fn = "remove_inference_service" -> Call(r, "remove_load_balancer")
      [] r.fn = "remove_load_balancer" -> Call(r, "unregister_warming_model")
      [] r.fn = "unregister_warming_model" -> Call(r, "unregister_active_model")
      [] OTHER -> Done(r, "success")

\* stop_model (lines 27-45): what follows the return of fn in the try block.
StopForwardNext(r) ==
    CASE r.fn = "remove_inference_service" -> Call(r, "remove_load_balancer")
      [] r.fn = "remove_load_balancer" -> Call(r, "unregister_warming_model")
      [] r.fn = "unregister_warming_model" -> Call(r, "unregister_active_model")
      [] r.fn = "unregister_active_model" -> Call(r, "unregister_cooling_model")
      [] OTHER -> Done(r, "success")

\* The function r.fn returns normally.
Returned(r) ==
    CASE r.op = "start" /\ r.phase = "forward" -> StartForwardNext(r)
      [] r.op = "start" /\ r.phase = "cleanup" -> CleanupNext(r)
      [] r.op = "stop" /\ r.phase = "register" ->
            Call([r EXCEPT !.phase = "forward"], "remove_inference_service")
      [] r.op = "stop" /\ r.phase = "forward" -> StopForwardNext(r)
      [] r.op = "twice" /\ r.phase = "first" ->
            Call([r EXCEPT !.phase = "second"], r.fn)
      [] r.op = "twice" -> Done(r, "success")
      [] OTHER -> [r EXCEPT !.fn = "restore_original_state", !.pc = "ensure_path"]

\* Variant: the exception of a compensation takes the place of the failure
\* that began the rollback.
Raised_cleanup_masks(r) ==
    CASE r.op = "start" /\ r.phase = "forward" ->
            CleanupAt([Thrown(r) EXCEPT !.phase = "cleanup", !.polls = 0,
                                        !.failed = 0], "active")
      [] r.op = "start" /\ r.phase = "cleanup" -> CleanupNext(Thrown(r))
      [] r.op = "stop" /\ r.phase = "register" -> Done(Thrown(r), "error")
      [] r.op = "stop" /\ r.phase = "forward" ->
            [Thrown(r) EXCEPT !.phase = "restore", !.fn = "restore_original_state",
                              !.pc = "check", !.model_data_none = FALSE]
      [] OTHER -> Done(Thrown(r), "error")

\* Variant: an exception of a compensation ends cleanup_deployment.
Raised_cleanup_aborts(r) ==
    CASE r.op = "start" /\ r.phase = "forward" ->
            CleanupAt([Thrown(r) EXCEPT !.phase = "cleanup", !.polls = 0,
                                        !.failed = 0], "active")
      [] r.op = "start" /\ r.phase = "cleanup" -> Done(Logged(r), "error")
      [] r.op = "stop" /\ r.phase = "register" -> Done(Thrown(r), "error")
      [] r.op = "stop" /\ r.phase = "forward" ->
            [Thrown(r) EXCEPT !.phase = "restore", !.fn = "restore_original_state",
                              !.pc = "check", !.model_data_none = FALSE]
      [] OTHER -> Done(Thrown(r), "error")

\* Variant: register_cooling_model is inside the try block of stop_model, so
\* its exceptions lead to the restore as well.
Raised_restore_always(r) ==
    CASE r.op = "start" /\ r.phase = "forward" ->
            CleanupAt([Thrown(r) EXCEPT !.phase = "cleanup", !.polls = 0,
                                        !.failed = 0], "active")
      [] r.op = "start" /\ r.phase = "cleanup" -> CleanupNext(Logged(r))
      [] r.op = "stop" /\ r.phase \in {"register", "forward"} ->
            [Thrown(r) EXCEPT !.phase = "restore", !.fn = "restore_original_state",
                              !.pc = "check", !.model_data_none = FALSE]
      [] OTHER -> Done(Thrown(r), "error")

\* The function r.fn raises: deployment_manager runs the cleanup and re-raises,
\* cleanup_deployment logs and goes on, stop_model restores when the exception
\* comes from its inner try block and answers 500 otherwise.
Raised(r) ==
    CASE r.op = "start" /\ r.phase = "forward" ->
            CleanupAt([Thrown(r) EXCEPT !.phase = "cleanup", !.polls = 0,
                                        !.failed = 0], "active")
      [] r.op = "start" /\ r.phase = "cleanup" -> CleanupNext(Logged(r))
      [] r.op = "stop" /\ r.phase = "register" -> Done(Thrown(r), "error")
      [] r.op = "stop" /\ r.phase = "forward" ->
            [Thrown(r) EXCEPT !.phase = "restore", !.fn = "restore_original_state",
                              !.pc = "check", !.model_data_none = FALSE]
      [] OTHER -> Done(Thrown(r), "error")

\* Variant: a missing object is an error of the removal.
NotFound_raises(r) == Raised(r)

\* The removal found nothing to remove (`if e.status == 404: return True`,
\* `else: logger.info(... not found)`): it returns.
NotFound(r) == Returned(r)

Step(p, r) == proc' = [proc EXCEPT ![p] = r]

InFn(p, fn) == proc[p].fn = fn

\* Callers serialize the operations of one model_id.
Serialized(id) == \A q \in Workers : proc[q].model_id # id

\* No helper function is being called.
NoCall == [fn |-> "none"]

\* Nothing is deployed and every worker is idle.
InitWorld(workers, ids, outcomes) ==
    /\ zk = [path \in Stages \X ids |-> NoNode]
    /\ isvc = [n \in {ModelName(id) : id \in ids} |-> NoIsvc]
    /\ lb = [n \in {ModelName(id) : id \in ids} |-> NoLb]
    /\ external = [n \in {ModelName(id) : id \in ids} |-> FALSE]
    /\ ingress = [n \in {ModelName(id) : id \in ids} |-> FALSE]
    /\ proc = [p \in workers |-> Idle]
    /\ api = outcomes

InitOf(workers, ids, outcomes) ==
    /\ InitWorld(workers, ids, outcomes)
    /\ call = NoCall

\* One model whose requests the caller serializes (requests for different ids
\* touch disjoint znodes and cluster objects); every call may fail.
Init == InitOf({"w1"}, {"A"}, BOOLEAN)

\* POST /start: the Deployer is built and the saga begins. The field in_flight
\* is history: whether the warming znode of the id was there at that moment.
start_model(p, id) ==
    /\ proc[p].op = "none"
    /\ Serialized(id)
    /\ \E pools \in Inventories :
          Step(p, Call([Idle EXCEPT !.op = "start", !.phase = "forward",
                                    !.model_id = id, !.model_name = ModelName(id),
                                    !.model_type = ModelType(id),
                                    !.model_repo_id = ModelRepoId(id),
                                    !.served = proc[p].served,
                                    !.in_flight = zk_exists(Path("warming", id)),
                                    !.no_fit = ~can_deploy(Ask(id), pools)],
                       "register_warming_model"))
    /\ UNCHANGED <<zk, isvc, lb, external, ingress, api, call>>

\* POST /stop: the Deployer is built with empty model_repo_id and model_type.
stop_model(p, id) ==
    /\ proc[p].op = "none"
    /\ Serialized(id)
    /\ Step(p, Call([Idle EXCEPT !.op = "stop", !.phase = "register",
                                 !.model_id = id, !.model_name = ModelName(id),
                                 !.in_flight = zk_exists(Path("cooling", id)),
                                 !.served = proc[p].served],
                    "register_cooling_model"))
    /\ UNCHANGED <<zk, isvc, lb, external, ingress, api, call>>

\* The response has been sent; the worker is free again.
Respond(p) ==
    /\ proc[p].pc = "done"
    /\ Step(p, [Idle EXCEPT !.served = Served(proc[p])])
    /\ UNCHANGED <<zk, isvc, lb, external, ingress, api, call>>

\* The cloud assigns an external address to a pending LoadBalancer service.
AssignAddress(n) ==
    /\ lb[n].exists
    /\ lb[n].addr = ""
    /\ \E a \in Addrs : lb' = [lb EXCEPT ![n].addr = a]
    /\ UNCHANGED <<zk, isvc, proc, external, ingress, api, call>>

\* ------------------------------------------------------- ZookeeperMixin
\* register_warming_model: ensure_path, then set the WARMING payload; any
\* exception is logged and re-raised.
register_warming_model(p) ==
    LET r == proc[p]
        path == Path("warming", r.model_id) IN
    /\ InFn(p, "register_warming_model")
    /\ \E ok \in api :
          IF r.pc = "ensure_path"
          THEN IF ok THEN /\ zk' = zk_ensure_path(path)
                          /\ Step(p, [r EXCEPT !.pc = "set"])
                     ELSE /\ UNCHANGED zk
                          /\ Step(p, Raised(r))
          ELSE IF ok /\ zk_exists(path)
               THEN /\ zk' = zk_set(path, create_zk_data(r, "warming", ""))
                    /\ Step(p, Returned(r))
               ELSE /\ UNCHANGED zk
                    /\ Step(p, Raised(r))
    /\ UNCHANGED <<isvc, lb, external, ingress, api, call>>

\* LoadBalancerMixin.get_load_balancer_ip(wait=True): the address of `{name}-lb`,
\* or "" (None) when the service is missing, the API fails or the wait times out.
get_load_balancer_ip(r, api_ok) ==
    IF api_ok /\ lb[r.model_name].exists THEN lb[r.model_name].addr ELSE ""

\* register_active_model: delete the warming znode if it exists (outside the
\* try), then ensure_path(active), build the payload from the load balancer's
\* address (RuntimeError when there is none) and set it.
register_active_model(p) ==
    LET r == proc[p]
        warming == Path("warming", r.model_id)
        path == Path("active", r.model_id) IN
    /\ InFn(p, "register_active_model")
    /\ \E ok \in api :
          CASE r.pc = "exists" ->
                 /\ UNCHANGED zk
                 /\ Step(p, IF ~ok THEN Raised(r)
                            ELSE IF zk_exists(warming) THEN [r EXCEPT !.pc = "delete"]
                            ELSE [r EXCEPT !.pc = "ensure_path"])
            [] r.pc = "delete" ->
                 IF ok /\ zk_exists(warming)
                 THEN /\ zk' = zk_delete(warming)
                      /\ Step(p, [r EXCEPT !.pc = "ensure_path"])
                 ELSE /\ UNCHANGED zk
                      /\ Step(p, Raised(r))
            [] r.pc = "ensure_path" ->
                 IF ok THEN /\ zk' = zk_ensure_path(path)
                            /\ Step(p, [r EXCEPT !.pc = "get_ip"])
                       ELSE /\ UNCHANGED zk
                            /\ Step(p, Raised(r))
            [] r.pc = "get_ip" ->
                 /\ UNCHANGED zk
                 /\ LET lb_ip == get_load_balancer_ip(r, ok) IN
                    Step(p, IF lb_ip = "" THEN Raised(r)
                            ELSE [r EXCEPT !.pc = "set", !.lb_ip = lb_ip])
            [] OTHER ->
                 IF ok /\ zk_exists(path)
                 THEN /\ zk' = zk_set(path, create_zk_data(r, "active", r.lb_ip))
                      /\ Step(p, Returned(r))
                 ELSE /\ UNCHANGED zk
                      /\ Step(p, Raised(r))
    /\ UNCHANGED <<isvc, lb, external, ingress, api, call>>

\* _get_zk_data: the parsed payload, or None when the node is missing or the
\* read fails (every exception is caught).
get_zk_data_is_none(path, ok) == ~ok \/ ~zk_exists(path)

\* unregister_warming_model: exists, _get_zk_data, delete; the log line after
\* the delete dereferences model_data, which raises when _get_zk_data gave None.
unregister_warming_model(p) ==
    LET r == proc[p]
        path == Path("warming", r.model_id) IN
    /\ InFn(p, "unregister_warming_model")
    /\ \E ok \in api :
          CASE r.pc = "exists" ->
                 /\ UNCHANGED zk
                 /\ Step(p, IF ~ok THEN Raised(r)
                            ELSE IF zk_exists(path) THEN [r EXCEPT !.pc = "get"]
                            ELSE NotFound(r))
            [] r.pc = "get" ->
                 /\ UNCHANGED zk
                 /\ Step(p, [r EXCEPT !.pc = "delete",
                                      !.model_data_none = get_zk_data_is_none(path, ok)])
            [] OTHER ->
                 IF ok /\ zk_exists(path)
                 THEN /\ zk' = zk_delete(path)
                      /\ Step(p, IF r.model_data_none THEN Raised(r) ELSE Returned(r))
                 ELSE /\ UNCHANGED zk
                      /\ Step(p, Raised(r))
    /\ UNCHANGED <<isvc, lb, external, ingress, api, call>>

\* unregister_active_model: exists, then (_get_zk_data, whose result only feeds
\* a guarded log line) delete; exceptions are re-raised.
unregister_active_model(p) ==
    LET r == proc[p]
        path == Path("active", r.model_id) IN
    /\ InFn(p, "unregister_active_model")
    /\ \E ok \in api :
          IF r.pc = "exists"
          THEN /\ UNCHANGED zk
               /\ Step(p, IF ~ok THEN Raised(r)
                          ELSE IF zk_exists(path) THEN [r EXCEPT !.pc = "delete"]
                          ELSE NotFound(r))
          ELSE IF ok /\ zk_exists(path)
               THEN /\ zk' = zk_delete(path)
                    /\ Step(p, Returned(r))
               ELSE /\ UNCHANGED zk
                    /\ Step(p, Raised(r))
    /\ UNCHANGED <<isvc, lb, external, ingress, api, call>>

\* unregister_cooling_model: exists, then (_get_zk_data, guarded in the log
\* line) delete.
unregister_cooling_model(p) ==
    LET r == proc[p]
        path == Path("cooling", r.model_id) IN
    /\ InFn(p, "unregister_cooling_model")
    /\ \E ok \in api :
          IF r.pc = "exists"
          THEN /\ UNCHANGED zk
               /\ Step(p, IF ~ok THEN Raised(r)
                          ELSE IF zk_exists(path) THEN [r EXCEPT !.pc = "delete"]
                          ELSE NotFound(r))
          ELSE IF ok /\ zk_exists(path)
               THEN /\ zk' = zk_delete(path)
                    /\ Step(p, Returned(r))
               ELSE /\ UNCHANGED zk
                    /\ Step(p, Raised(r))
    /\ UNCHANGED <<isvc, lb, external, ingress, api, call>>

\* register_cooling_model: remember the original state and payload (active
\* first, else warming, else none), then ensure_path(cooling) and set COOLING.
register_cooling_model(p) ==
    LET r == proc[p]
        active_path == Path("active", r.model_id)
        warming_path == Path("warming", r.model_id)
        cooling_path == Path("cooling", r.model_id) IN
    /\ InFn(p, "register_cooling_model")
    /\ \E ok \in api :
          CASE r.pc = "exists_active" ->
                 /\ UNCHANGED zk
                 /\ Step(p, IF ~ok THEN Raised(r)
                            ELSE IF zk_exists(active_path)
                            THEN [r EXCEPT !.pc = "get_active",
                                           !.original_state = "active"]
                            ELSE [r EXCEPT !.pc = "exists_warming"])
            [] r.pc = "get_active" ->
                 /\ UNCHANGED zk
                 /\ Step(p, IF ok /\ zk_exists(active_path)
                            THEN [r EXCEPT !.pc = "ensure_path",
                                           !.original_data = zk[active_path].data]
                            ELSE Raised(r))
            [] r.pc = "exists_warming" ->
                 /\ UNCHANGED zk
                 /\ Step(p, IF ~ok THEN Raised(r)
                            ELSE IF zk_exists(warming_path)
                            THEN [r EXCEPT !.pc = "get_warming",
                                           !.original_state = "warming"]
                            ELSE [r EXCEPT !.pc = "ensure_path"])
            [] r.pc = "get_warming" ->
                 /\ UNCHANGED zk
                 /\ Step(p, IF ok /\ zk_exists(warming_path)
                            THEN [r EXCEPT !.pc = "ensure_path",
                                           !.original_data = zk[warming_path].data]
                            ELSE Raised(r))
            [] r.pc = "ensure_path" ->
                 IF ok THEN /\ zk' = zk_ensure_path(cooling_path)
                            /\ Step(p, [r EXCEPT !.pc = "set"])
                       ELSE /\ UNCHANGED zk
                            /\ Step(p, Raised(r))
            [] OTHER ->
                 IF ok /\ zk_exists(cooling_path)
                 THEN /\ zk' = zk_set(cooling_path, create_zk_data(r, "cooling", ""))
                      /\ Step(p, Returned(r))
                 ELSE /\ UNCHANGED zk
                      /\ Step(p, Raised(r))
    /\ UNCHANGED <<isvc, lb, external, ingress, api, call>>

\* restore_original_state: nothing to restore (return False) when there is no
\* original state or the captured payload is empty; otherwise
\* unregister_cooling_model (outside the try), then ensure_path and set of the
\* original path with the captured payload (exceptions give False).
restore_original_state(p) ==
    LET r == proc[p]
        path == Path(r.original_state, r.model_id) IN
    /\ InFn(p, "restore_original_state")
    /\ \E ok \in api :
          CASE r.pc = "check" ->
                 /\ UNCHANGED zk
                 /\ Step(p, IF r.original_state = "" \/ r.original_data.fmt = "empty"
                            THEN Done(r, "error")
                            ELSE Call(r, "unregister_cooling_model"))
            [] r.pc = "ensure_path" ->
                 IF ok THEN /\ zk' = zk_ensure_path(path)
                            /\ Step(p, [r EXCEPT !.pc = "set"])
                       ELSE /\ UNCHANGED zk
                            /\ Step(p, Done(Logged(r), "error"))
            [] OTHER ->
                 IF ok /\ zk_exists(path)
                 THEN /\ zk' = zk_set(path, r.original_data)
                      /\ Step(p, Done(r, "error"))
                 ELSE /\ UNCHANGED zk
                      /\ Step(p, Done(Logged(r), "error"))
    /\ UNCHANGED <<isvc, lb, external, ingress, api, call>>

\* ------------------------------------------------------ DeploymentMixin
\* Variant: the manifest is created without looking for the object.
\* apply_yaml: download and label the manifest, GET the custom object, patch it
\* when it exists and create it on 404; every failure becomes an HTTPException.
apply_yaml_verb_create(exists) == "create"

\* apply_yaml (lines 96-130): the GET answers, so the object is patched; the
\* GET gives 404, so it is created.
apply_yaml_verb(exists) == IF exists THEN "patch" ELSE "create"

apply_yaml(p) ==
    LET r == proc[p]
        n == r.model_name
        labelled == [exists |-> TRUE, model_id |-> r.model_id] IN
    /\ InFn(p, "apply_yaml")
    /\ \E ok \in api :
          CASE r.pc = "download" ->
                 /\ UNCHANGED isvc
                 /\ Step(p, IF ok THEN [r EXCEPT !.pc = "get"] ELSE Raised(r))
            [] r.pc = "get" ->
                 /\ UNCHANGED isvc
                 /\ Step(p, IF ~ok THEN Raised(r)
                            ELSE [r EXCEPT !.pc = apply_yaml_verb(isvc[n].exists)])
            [] r.pc = "patch" ->
                 IF ok /\ isvc[n].exists
                 THEN /\ isvc' = [isvc EXCEPT ![n] = labelled]
                      /\ Step(p, Returned(r))
                 ELSE /\ UNCHANGED isvc
                      /\ Step(p, Raised(r))
            [] OTHER ->
                 IF ok /\ ~isvc[n].exists
                 THEN /\ isvc' = [isvc EXCEPT ![n] = labelled]
                      /\ Step(p, Returned(r))
                 ELSE /\ UNCHANGED isvc
                      /\ Step(p, Raised(r))
    /\ UNCHANGED <<zk, lb, external, ingress, api, call>>

\* remove_inference_service: GET, then delete; 404 on either is success, any
\* other failure is raised.
remove_inference_service(p) ==
    LET r == proc[p]
        n == r.model_name IN
    /\ InFn(p, "remove_inference_service")
    /\ \E ok \in api :
          IF r.pc = "get"
          THEN /\ UNCHANGED isvc
               /\ Step(p, IF ~ok THEN Raised(r)
                          ELSE IF isvc[n].exists THEN [r EXCEPT !.pc = "delete"]
                          ELSE NotFound(r))
          ELSE IF ok
               THEN /\ isvc' = [isvc EXCEPT ![n] = NoIsvc]
                    /\ Step(p, Returned(r))
               ELSE /\ UNCHANGED isvc
                    /\ Step(p, Raised(r))
    /\ UNCHANGED <<zk, lb, external, ingress, api, call>>

\* ---------------------------------------------------- LoadBalancerMixin
\* create_load_balancer: read `{name}-lb`; replace it when it exists, create it
\* on 404 (also a 404 of the replace); other failures become an HTTPException.
\* The body of the service (lines 30-39): its metadata is the name and the
\* namespace, no labels, so the object has no model-id label (model_id "");
\* the cluster assigns the address later.
V1Service(r) == [exists |-> TRUE, addr |-> "", model_id |-> ""]

create_load_balancer(p) ==
    LET r == proc[p]
        n == r.model_name IN
    /\ InFn(p, "create_load_balancer")
    /\ \E ok \in api :
          CASE r.pc = "read" ->
                 /\ UNCHANGED lb
                 /\ Step(p, IF ~ok THEN Raised(r)
                            ELSE IF lb[n].exists THEN [r EXCEPT !.pc = "replace"]
                            ELSE [r EXCEPT !.pc = "create"])
            [] r.pc = "replace" ->
                 /\ lb' = IF ok /\ lb[n].exists
                          THEN [lb EXCEPT ![n].model_id = V1Service(r).model_id]
                          ELSE lb
                 /\ Step(p, IF ~ok THEN Raised(r)
                            ELSE IF lb[n].exists THEN Returned(r)
                            ELSE [r EXCEPT !.pc = "create"])
            [] OTHER ->
                 IF ok /\ ~lb[n].exists
                 THEN /\ lb' = [lb EXCEPT ![n] = V1Service(r)]
                      /\ Step(p, Returned(r))
                 ELSE /\ UNCHANGED lb
                      /\ Step(p, Raised(r))
    /\ UNCHANGED <<zk, isvc, external, ingress, api, call>>

\* remove_load_balancer: read, then delete; 404 on either is success.
remove_load_balancer(p) ==
    LET r == proc[p]
        n == r.model_name IN
    /\ InFn(p, "remove_load_balancer")
    /\ \E ok \in api :
          IF r.pc = "read"
          THEN /\ UNCHANGED lb
               /\ Step(p, IF ~ok THEN Raised(r)
                          ELSE IF lb[n].exists THEN [r EXCEPT !.pc = "delete"]
                          ELSE NotFound(r))
          ELSE IF ok
               THEN /\ lb' = [lb EXCEPT ![n] = NoLb]
                    /\ Step(p, Returned(r))
               ELSE /\ UNCHANGED lb
                    /\ Step(p, Raised(r))
    /\ UNCHANGED <<zk, isvc, external, ingress, api, call>>

\* ---------------------------------------------------- ExternalNameMixin
\* remove_external_name_service: read `{name}-external`, then delete; 404 on
\* either is success.
remove_external_name_service(p) ==
    LET r == proc[p]
        n == r.model_name IN
    /\ InFn(p, "remove_external_name_service")
    /\ \E ok \in api :
          IF r.pc = "read"
          THEN /\ UNCHANGED external
               /\ Step(p, IF ~ok THEN Raised(r)
                          ELSE IF external[n] THEN [r EXCEPT !.pc = "delete"]
                          ELSE NotFound(r))
          ELSE IF ok
               THEN /\ external' = [external EXCEPT ![n] = FALSE]
                    /\ Step(p, Returned(r))
               ELSE /\ UNCHANGED external
                    /\ Step(p, Raised(r))
    /\ UNCHANGED <<zk, isvc, lb, ingress, api, call>>

\* --------------------------------------------------------- IngressMixin
\* remove_ingress: read `{name}-ingress`, then delete; 404 on either is success.
remove_ingress(p) ==
    LET r == proc[p]
        n == r.model_name IN
    /\ InFn(p, "remove_ingress")
    /\ \E ok \in api :
          IF r.pc = "read"
          THEN /\ UNCHANGED ingress
               /\ Step(p, IF ~ok THEN Raised(r)
                          ELSE IF ingress[n] THEN [r EXCEPT !.pc = "delete"]
                          ELSE NotFound(r))
          ELSE IF ok
               THEN /\ ingress' = [ingress EXCEPT ![n] = FALSE]
                    /\ Step(p, Returned(r))
               ELSE /\ UNCHANGED ingress
                    /\ Step(p, Raised(r))
    /\ UNCHANGED <<zk, isvc, lb, external, api, call>>

\* ----------------------------------------------------------- KServeMixin
\* wait_for_model_ready, one iteration of the loop: past the deadline the gate
\* gives False; without an address the failure count grows and the gate gives
\* False once it exceeds the limit; with an address the health endpoint is
\* probed (status < 400 gives True); otherwise sleep and poll again. The field
\* streak is history: the failures to get an address since the last address.
\* Variant: the sleep of an iteration does not bring the deadline nearer.
gate_sleep_no_clock(r) == r

\* wait_for_model_ready (line 46): an iteration that did not return sleeps, which
\* brings the deadline one polling interval nearer.
gate_sleep(r) == [r EXCEPT !.polls = @ + 1]

wait_for_model_ready(p) ==
    LET r == proc[p]
        gate(ready, why) == Returned([r EXCEPT !.model_ready = ready,
                                               !.gate_exit = why,
                                               !.polls = 0, !.failed = 0,
                                               !.streak = 0]) IN
    /\ InFn(p, "wait_for_model_ready")
    /\ \E ok \in api, healthy \in BOOLEAN :
          LET lb_ip == get_load_balancer_ip(r, ok) IN
          Step(p, IF r.polls >= MaxPolls
                  THEN gate(FALSE, IF lb[r.model_name].exists /\ lb[r.model_name].addr # ""
                                   THEN "deadline" ELSE "deadline_no_address")
                  ELSE IF lb_ip = ""
                  THEN IF r.failed + 1 > FailedLbLimit THEN gate(FALSE, "no_address")
                       ELSE gate_sleep([r EXCEPT !.failed = @ + 1,
                                                 !.streak = @ + 1])
                  ELSE IF healthy THEN gate(TRUE, "ready")
                       ELSE gate_sleep([r EXCEPT !.streak = 0]))
    /\ UNCHANGED <<zk, isvc, lb, external, ingress, api, call>>

\* ------------------------------------------------------ start_route_v2
\* Variant: every compensation runs, whatever the flags.
completed_steps_all(r, flag) == TRUE

\* `if completed_steps[flag]:`
completed_steps(r, flag) == flag \in r.flags

\* cleanup_deployment: for each completed step, in reverse order, call its
\* compensation (errors are logged and the next one runs).
cleanup_deployment(p) ==
    LET r == proc[p]
        comp(flag, fn, next) ==
            IF completed_steps(r, flag) THEN Call(r, fn)
            ELSE IF next = "" THEN Done(r, "error")
            ELSE CleanupAt(r, next) IN
    /\ InFn(p, "cleanup_deployment")
    /\ Step(p, CASE r.pc = "active" ->
                      comp("active_registered", "unregister_active_model",
                           "load_balancer")
                 [] r.pc = "load_balancer" ->
                      comp("load_balancer_created", "remove_load_balancer",
                           "inference_service")
                 [] r.pc = "inference_service" ->
                      comp("yaml_applied", "remove_inference_service", "warming")
                 [] OTHER ->
                      comp("warming_registered", "unregister_warming_model", ""))
    /\ UNCHANGED <<zk, isvc, lb, external, ingress, api, call>>

\* ------------------------------------------------------------ the system
Next ==
    \/ \E p \in Workers, id \in ModelIds : start_model(p, id)
    \/ \E p \in Workers, id \in ModelIds : stop_model(p, id)
    \/ \E p \in Workers : Respond(p)
    \/ \E n \in ModelNames : AssignAddress(n)
    \/ \E p \in Workers : register_warming_model(p)
    \/ \E p \in Workers : apply_yaml(p)
    \/ \E p \in Workers : create_load_balancer(p)
    \/ \E p \in Workers : wait_for_model_ready(p)
    \/ \E p \in Workers : register_active_model(p)
    \/ \E p \in Workers : cleanup_deployment(p)
    \/ \E p \in Workers : register_cooling_model(p)
    \/ \E p \in Workers : remove_inference_service(p)
    \/ \E p \in Workers : remove_load_balancer(p)
    \/ \E p \in Workers : unregister_warming_model(p)
    \/ \E p \in Workers : unregister_active_model(p)
    \/ \E p \in Workers : unregister_cooling_model(p)
    \/ \E p \in Workers : restore_original_state(p)

Spec == Init /\ [][Next]_vars

\* A request that has begun goes on: the route runs the saga to its end in a
\* worker thread (asyncio.to_thread) and every call it makes returns or raises.
Advance(p) ==
    \/ register_warming_model(p)
    \/ apply_yaml(p)
    \/ create_load_balancer(p)
    \/ wait_for_model_ready(p)
    \/ register_active_model(p)
    \/ cleanup_deployment(p)
    \/ register_cooling_model(p)
    \/ remove_inference_service(p)
    \/ remove_load_balancer(p)
    \/ unregister_warming_model(p)
    \/ unregister_active_model(p)
    \/ unregister_cooling_model(p)
    \/ restore_original_state(p)

SpecFair == Spec /\ WF_vars(Advance("w1"))

\* The same requests when ZooKeeper and the cluster API answer every call.
\* (stop_model's rollback needs a failing call, so it is not part of it.)
InitReliable == InitOf({"w1"}, {"A"}, {TRUE})

NextReliable ==
    \/ \E p \in Workers, id \in ModelIds : start_model(p, id)
    \/ \E p \in Workers, id \in ModelIds : stop_model(p, id)
    \/ \E p \in Workers : Respond(p)
    \/ \E n \in ModelNames : AssignAddress(n)
    \/ \E p \in Workers : register_warming_model(p)
    \/ \E p \in Workers : apply_yaml(p)
    \/ \E p \in Workers : create_load_balancer(p)
    \/ \E p \in Workers : wait_for_model_ready(p)
    \/ \E p \in Workers : register_active_model(p)
    \/ \E p \in Workers : cleanup_deployment(p)
    \/ \E p \in Workers : register_cooling_model(p)
    \/ \E p \in Workers : remove_inference_service(p)
    \/ \E p \in Workers : remove_load_balancer(p)
    \/ \E p \in Workers : unregister_warming_model(p)
    \/ \E p \in Workers : unregister_active_model(p)
    \/ \E p \in Workers : unregister_cooling_model(p)

SpecReliable == InitReliable /\ [][NextReliable]_vars

\* ------------------------------- a resource that appears before the create
\* Another client of the cluster creates the object a worker has just looked
\* for and not found (404), so that the worker's create is answered with 409.
OtherClientCreates(n) ==
    /\ \E p \in Workers :
          /\ proc[p].model_name = n
          /\ proc[p].pc = "create"
          /\ \/ /\ proc[p].fn = "apply_yaml"
                /\ ~isvc[n].exists
                /\ isvc' = [isvc EXCEPT ![n] = [exists |-> TRUE, model_id |-> ""]]
                /\ UNCHANGED lb
             \/ /\ proc[p].fn = "create_load_balancer"
                /\ ~lb[n].exists
                /\ lb' = [lb EXCEPT ![n] = [NoLb EXCEPT !.exists = TRUE]]
                /\ UNCHANGED isvc
    /\ UNCHANGED <<zk, proc, external, ingress, api, call>>

NextConflict ==
    \/ NextReliable
    \/ \E n \in ModelNames : OtherClientCreates(n)

\* Every call is answered, so a create fails only with 409.
SpecConflict == InitReliable /\ [][NextConflict]_vars

\* ------------------------------------- two requests for different models
\* The model is deployed and registered active, as a successful Start leaves it.
Deployed(id) == ZnodeOf("json", "active", id)

\* Two workers, two models with different names, each model deployed or not;
\* every call may fail.
InitTwoModels ==
    \E deployed \in SUBSET {"A", "B"} :
        /\ zk = [path \in Stages \X {"A", "B"} |->
                   IF path[1] = "active" /\ path[2] \in deployed
                   THEN Deployed(path[2]) ELSE NoNode]
        /\ isvc = [n \in {ModelName(id) : id \in {"A", "B"}} |->
                     IF \E id \in deployed : n = ModelName(id)
                     THEN [exists |-> TRUE,
                           model_id |-> CHOOSE id \in deployed : n = ModelName(id)]
                     ELSE NoIsvc]
        /\ lb = [n \in {ModelName(id) : id \in {"A", "B"}} |->
                   IF \E id \in deployed : n = ModelName(id)
                   THEN [exists |-> TRUE, addr |-> "10.0.0.1", model_id |-> ""] ELSE NoLb]
        /\ external = [n \in {ModelName(id) : id \in {"A", "B"}} |-> FALSE]
        /\ ingress = [n \in {ModelName(id) : id \in {"A", "B"}} |-> FALSE]
        /\ proc = [p \in {"w1", "w2"} |-> Idle]
        /\ api = BOOLEAN
        /\ call = NoCall

\* ------------------------------------------- a model with a legacy znode
\* The model is deployed and its active znode holds the raw address string that
\* _get_zk_data (lines 122-133) still reads; every call may fail.
InitLegacy ==
    /\ zk = [path \in Stages \X {"A"} |->
               IF path[1] = "active"
               THEN ZnodeOf("legacy", "active", "A") ELSE NoNode]
    /\ isvc = [n \in {ModelName("A")} |-> [exists |-> TRUE, model_id |-> "A"]]
    /\ lb = [n \in {ModelName("A")} |-> [exists |-> TRUE, addr |-> "10.0.0.1", model_id |-> ""]]
    /\ external = [n \in {ModelName("A")} |-> FALSE]
    /\ ingress = [n \in {ModelName("A")} |-> FALSE]
    /\ proc = [p \in {"w1"} |-> Idle]
    /\ api = BOOLEAN
    /\ call = NoCall

SpecLegacy == InitLegacy /\ [][Next]_vars

\* The model whose request a worker is given.
RequestedOf(p) == IF p = "w1" THEN "A" ELSE "B"

\* Each worker takes one request; the two requests run interleaved.
NextTwoModels ==
    \/ \E p \in Workers : start_model(p, RequestedOf(p))
    \/ \E p \in Workers : stop_model(p, RequestedOf(p))
    \/ \E n \in ModelNames : AssignAddress(n)
    \/ \E p \in Workers : register_warming_model(p)
    \/ \E p \in Workers : apply_yaml(p)
    \/ \E p \in Workers : create_load_balancer(p)
    \/ \E p \in Workers : wait_for_model_ready(p)
    \/ \E p \in Workers : register_active_model(p)
    \/ \E p \in Workers : cleanup_deployment(p)
    \/ \E p \in Workers : register_cooling_model(p)
    \/ \E p \in Workers : remove_inference_service(p)
    \/ \E p \in Workers : remove_load_balancer(p)
    \/ \E p \in Workers : unregister_warming_model(p)
    \/ \E p \in Workers : unregister_active_model(p)
    \/ \E p \in Workers : unregister_cooling_model(p)
    \/ \E p \in Workers : restore_original_state(p)

SpecTwoModels == InitTwoModels /\ [][NextTwoModels]_vars

\* ----------------------------------------------------------- placement
\* Asks a manifest can make and pools a cluster can have: cpu in centi-cores,
\* memory in GiB.
Asks == [cpu : {0, 200, 500}, mem : {0, 8}, gpu : {0, 1, 2}]

PoolData ==
    [missing : {FALSE}, gpu_count : {0, 1}, cpu : {100, 400}, mem : {4, 16},
     gpu : {0, 1}]
    \cup {[missing |-> TRUE, gpu_count |-> 1, cpu |-> 0, mem |-> 0, gpu |-> 0]}

RECURSIVE SeqsUpTo(_, _)
SeqsUpTo(S, n) ==
    IF n = 0 THEN {<<>>}
    ELSE LET shorter == SeqsUpTo(S, n - 1) IN
         shorter \cup {Append(q, x) : q \in shorter, x \in S}

\* find_suitable_pool is called with an ask and the cluster has some inventory.
InitPlacement ==
    /\ InitWorld({}, {}, {TRUE})
    /\ call \in [fn : {"find_suitable_pool"}, ask : Asks,
                 pools : SeqsUpTo(PoolData, MaxPools), returned : {FALSE},
                 pool : {0}]

find_suitable_pool_returns ==
    /\ call.fn = "find_suitable_pool"
    /\ ~call.returned
    /\ call' = [call EXCEPT !.returned = TRUE,
                            !.pool = find_suitable_pool(call.ask, call.pools)]
    /\ UNCHANGED <<zk, isvc, lb, external, ingress, proc, api>>

NextPlacement == find_suitable_pool_returns

SpecPlacement == InitPlacement /\ [][NextPlacement]_vars

\* -------------------------------------------------- reading a znode
\* What a znode's value is made of: white space, the text of an address, the
\* text of a JSON object, a byte that is not UTF-8.
Whitespace == {" ", "\n"}
ZnodeBytes == {" ", "\n", "10.1.2.3", "{..}", "0xff"}

\* bytes.decode("utf-8") raises UnicodeDecodeError, which is not a
\* JSONDecodeError, unless every byte is UTF-8.
decodable(bytes) == \A i \in 1..Len(bytes) : bytes[i] # "0xff"

RECURSIVE lstrip(_)
lstrip(text) ==
    IF text # <<>> /\ Head(text) \in Whitespace THEN lstrip(Tail(text)) ELSE text

RECURSIVE rstrip(_)
rstrip(text) ==
    IF text # <<>> /\ text[Len(text)] \in Whitespace
    THEN rstrip(SubSeq(text, 1, Len(text) - 1))
    ELSE text

\* str.strip()
strip(text) == rstrip(lstrip(text))

\* json.loads accepts one JSON value with white space around it.
json_loads_ok(text) == strip(text) = <<"{..}">>

\* `return None`
None == [raised |-> FALSE, none |-> TRUE]

\* Variant: the exceptions of the read are not caught.
ReadFailed_raises == [raised |-> TRUE, none |-> FALSE]

\* `except Exception as e: ... return None`
ReadFailed == None

\* Variant: the legacy value is returned as it was read.
legacy_ip_raw(text) == text

\* `ip = data.decode("utf-8").strip()`
legacy_ip(text) == strip(text)

\* ZookeeperMixin._get_zk_data of a znode, by an object that has (or has not)
\* the attribute model_name; ok: exists and get answer.
get_zk_data(node, caller, ok) ==
    IF ~ok THEN ReadFailed
    ELSE IF ~node.exists THEN None
    ELSE IF ~decodable(node.bytes) THEN ReadFailed
    ELSE IF json_loads_ok(node.bytes)
    THEN [raised |-> FALSE, none |-> FALSE, deployment_type |-> "kserve",
          ip |-> node.bytes, model_name |-> "in the payload"]
    ELSE [raised |-> FALSE, none |-> FALSE, deployment_type |-> "legacy",
          ip |-> legacy_ip(node.bytes),
          model_name |-> IF caller.has_model_name THEN caller.model_name
                         ELSE "unknown"]

InitReading ==
    /\ InitWorld({}, {}, BOOLEAN)
    /\ call \in [fn : {"_get_zk_data"},
                 node : [exists : BOOLEAN, bytes : SeqsUpTo(ZnodeBytes, MaxBytes)],
                 caller : [has_model_name : {TRUE}, model_name : {"alpha"}]
                          \cup [has_model_name : {FALSE}, model_name : {""}],
                 returned : {FALSE}, read_ok : {TRUE}, result : {None}]

get_zk_data_returns ==
    /\ call.fn = "_get_zk_data"
    /\ ~call.returned
    /\ \E ok \in api :
          call' = [call EXCEPT !.returned = TRUE, !.read_ok = ok,
                               !.result = get_zk_data(call.node, call.caller, ok)]
    /\ UNCHANGED <<zk, isvc, lb, external, ingress, proc, api>>

NextReading == get_zk_data_returns

SpecReading == InitReading /\ [][NextReading]_vars

\* ------------------------------------------- apply_yaml on a manifest
\* What yaml.safe_load gives for the downloaded manifest: its kind, its
\* metadata.name, whether spec.predictor is there, and the model-id labels of
\* the metadata and of the predictor pod template ("" when absent).
ManifestKinds == {"InferenceService", "Deployment"}

ManifestNames == {"alpha", "other"}

Manifests ==
    [kind : ManifestKinds, name : ManifestNames, has_predictor : BOOLEAN,
     label : {""}, template_label : {""}]

\* apply_yaml (lines 26-62): the labels are added to an InferenceService only,
\* and to the pod template only when spec.predictor is there.
add_model_id_label(m, model_id) ==
    IF m.kind = "InferenceService"
    THEN [m EXCEPT !.label = model_id,
                   !.template_label = IF m.has_predictor THEN model_id ELSE @]
    ELSE m

\* The call of apply_yaml that fails, if any.
ApplyFaults == {"none", "download", "get", "patch", "create"}

NotApplied ==
    [raised |-> TRUE, verb |-> "none", kind |-> "", name |-> "", label |-> "",
     template_label |-> ""]

\* apply_yaml (lines 23-130) as a function of the manifest: the object of the
\* manifest's kind and name is looked up, patched when it is there and created
\* on 404, with the labelled manifest as body; any failure is raised.
apply_manifest(m, model_id, exists, fault) ==
    LET body == add_model_id_label(m, model_id)
        applied(verb) == [raised |-> FALSE, verb |-> verb, kind |-> body.kind,
                          name |-> body.name, label |-> body.label,
                          template_label |-> body.template_label] IN
    IF fault \in {"download", "get"} THEN NotApplied
    ELSE IF exists THEN (IF fault = "patch" THEN NotApplied ELSE applied("patch"))
    ELSE IF fault = "create" THEN NotApplied ELSE applied("create")

InitManifest ==
    /\ InitWorld({}, {}, BOOLEAN)
    /\ call \in [fn : {"apply_yaml"}, manifest : Manifests, model_name : {"alpha"},
                 model_id : {"A", "B"}, exists : BOOLEAN, returned : {FALSE},
                 fault : {"none"}, result : {NotApplied}]

apply_yaml_returns ==
    /\ call.fn = "apply_yaml"
    /\ ~call.returned
    /\ \E fault \in ApplyFaults :
          call' = [call EXCEPT !.returned = TRUE, !.fault = fault,
                               !.result = apply_manifest(call.manifest, call.model_id,
                                                         call.exists, fault)]
    /\ UNCHANGED <<zk, isvc, lb, external, ingress, proc, api>>

NextManifest == apply_yaml_returns

SpecManifest == InitManifest /\ [][NextManifest]_vars

\* ------------------------------------------- get_nodes_by_pool
\* Labels are key=value pairs; a label dictionary has each key once.
LabelPairs == {<<"pool", "gpu">>, <<"pool", "cpu">>, <<"zone", "a">>}

LabelDicts ==
    {d \in SUBSET LabelPairs : \A x \in d, y \in d : x[1] = y[1] => x = y}

\* The nodes that list_node gives, in its order.
NodeNames == <<"n1", "n2">>

\* Variant: one label of the pool on the node is enough.
matches_pool_any_label(pool_labels, node_labels) ==
    \E kv \in pool_labels : kv \in node_labels

\* get_nodes_by_pool (lines 85-92): every label of the pool is on the node with
\* the same value (a pool without labels matches every node).
matches_pool(pool_labels, node_labels) ==
    \A kv \in pool_labels :
        \E nl \in node_labels : nl[1] = kv[1] /\ nl[2] = kv[2]

\* Lines 84-96: the pools are tried in declared order from the i-th on and the
\* loop breaks at the first match; 0 when no pool matches.
RECURSIVE pool_of_node_from(_, _, _)
pool_of_node_from(pools, i, node_labels) ==
    IF i > Len(pools) THEN 0
    ELSE IF matches_pool(pools[i], node_labels) THEN i
    ELSE pool_of_node_from(pools, i + 1, node_labels)

\* nodes_by_pool: for each declared pool the names of its nodes.
get_nodes_by_pool(pools, node_labels) ==
    [i \in 1..Len(pools) |->
        SelectSeq(NodeNames,
                  LAMBDA n : pool_of_node_from(pools, 1, node_labels[n]) = i)]

InitNodes ==
    /\ InitWorld({}, {}, BOOLEAN)
    /\ call \in [fn : {"get_nodes_by_pool"},
                 pools : SeqsUpTo(LabelDicts, MaxPools),
                 nodes : [{"n1", "n2"} -> LabelDicts],
                 returned : {FALSE}, result : {<<>>}]

get_nodes_by_pool_returns ==
    /\ call.fn = "get_nodes_by_pool"
    /\ ~call.returned
    /\ call' = [call EXCEPT !.returned = TRUE,
                            !.result = get_nodes_by_pool(call.pools, call.nodes)]
    /\ UNCHANGED <<zk, isvc, lb, external, ingress, proc, api>>

NextNodes == get_nodes_by_pool_returns

SpecNodes == InitNodes /\ [][NextNodes]_vars

\* ------------------------------------------- lifespan of the control plane
\* `/services/kube-model-deployer`
ServicePath == <<"services", "kube-model-deployer">>

\* `f"{external_ip}:{nodeport}"` of this replica, and what another replica of
\* the control plane writes at the same path.
OwnAddress == "10.0.0.9:30080"

OtherAddress == "10.0.0.8:30080"

\* The process: call.pc is the point lifespan has reached; node_ip and
\* nodeport are what the cluster holds for get_node_info ("" when the node has
\* no address, or the service no nodeport for port 8000); data is the value to
\* register, stored the value read back, registered the result of
\* register_with_zookeeper; cleanup_failed is history: clean_up_zk has logged
\* an exception.
Lifespan(is_dev, node_ip, nodeport) ==
    [fn |-> "lifespan", is_dev |-> is_dev, pc |-> "start", node_ip |-> node_ip,
     nodeport |-> nodeport, data |-> "", stored |-> "", registered |-> FALSE,
     cleanup_failed |-> FALSE]

\* The znode may be there from an earlier run or from another replica.
InitLifespan ==
    /\ zk \in [{ServicePath} ->
                 {[exists |-> FALSE, data |-> ""],
                  [exists |-> TRUE, data |-> ""],
                  [exists |-> TRUE, data |-> OwnAddress],
                  [exists |-> TRUE, data |-> OtherAddress]}]
    /\ isvc = <<>>
    /\ lb = <<>>
    /\ external = <<>>
    /\ ingress = <<>>
    /\ proc = <<>>
    /\ api = BOOLEAN
    /\ call \in {Lifespan(is_dev, node_ip, nodeport) :
                    is_dev \in BOOLEAN, node_ip \in {"", "10.0.0.9"},
                    nodeport \in {"", "30080"}}

\* Variant: the application serves whatever register_with_zookeeper returned.
lifespan_after_register_serves(registered) == "serving"

\* lifespan (lines 27-32): False raises RuntimeError, True reaches the yield.
lifespan_after_register(registered) ==
    IF registered THEN "serving" ELSE "aborted"

\* lifespan (lines 24-35): dev mode yields at once and cleans up nothing;
\* otherwise register_with_zookeeper is called, and clean_up_zk after the yield.
lifespan ==
    /\ call.fn = "lifespan"
    /\ \/ /\ call.pc = "start"
          /\ call' = [call EXCEPT !.pc = IF call.is_dev THEN "serving"
                                        ELSE "get_node_info"]
       \/ /\ call.pc = "registered"
          /\ call' = [call EXCEPT !.pc = lifespan_after_register(call.registered)]
       \/ /\ call.pc = "serving"
          /\ call' = [call EXCEPT !.pc = IF call.is_dev THEN "stopped"
                                        ELSE "clean_up_start"]
    /\ UNCHANGED <<zk, isvc, lb, external, ingress, proc, api>>

\* register_with_zookeeper: get_node_info (None gives False), zk.start,
\* ensure_path, set, get, compare the stored bytes with the data; any
\* exception gives False.
register_with_zookeeper ==
    LET returns(r) == [call EXCEPT !.pc = "registered", !.registered = r] IN
    /\ call.fn = "lifespan"
    /\ \E ok \in api :
          CASE call.pc = "get_node_info" ->
                 /\ UNCHANGED zk
                 /\ call' = IF ok /\ call.node_ip # "" /\ call.nodeport # ""
                            THEN [call EXCEPT !.pc = "zk_start",
                                              !.data = call.node_ip \o ":"
                                                         \o call.nodeport]
                            ELSE returns(FALSE)
            [] call.pc = "zk_start" ->
                 /\ UNCHANGED zk
                 /\ call' = IF ok THEN [call EXCEPT !.pc = "ensure_path"]
                            ELSE returns(FALSE)
            [] call.pc = "ensure_path" ->
                 IF ok
                 THEN /\ zk' = IF zk[ServicePath].exists THEN zk
                               ELSE [zk EXCEPT ![ServicePath] =
                                        [exists |-> TRUE, data |-> ""]]
                      /\ call' = [call EXCEPT !.pc = "set"]
                 ELSE /\ UNCHANGED zk
                      /\ call' = returns(FALSE)
            [] call.pc = "set" ->
                 IF ok /\ zk[ServicePath].exists
                 THEN /\ zk' = [zk EXCEPT ![ServicePath].data = call.data]
                      /\ call' = [call EXCEPT !.pc = "get"]
                 ELSE /\ UNCHANGED zk
                      /\ call' = returns(FALSE)
            [] call.pc = "get" ->
                 /\ UNCHANGED zk
                 /\ call' = IF ok /\ zk[ServicePath].exists
                            THEN [returns(zk[ServicePath].data = call.data)
                                    EXCEPT !.stored = zk[ServicePath].data]
                            ELSE returns(FALSE)
            [] OTHER -> FALSE
    /\ UNCHANGED <<isvc, lb, external, ingress, proc, api>>

\* clean_up_zk: zk.start, exists, delete when it exists; an exception is
\* logged and nothing is raised.
clean_up_zk ==
    LET returns == [call EXCEPT !.pc = "stopped"]
        logged == [call EXCEPT !.pc = "stopped", !.cleanup_failed = TRUE] IN
    /\ call.fn = "lifespan"
    /\ \E ok \in api :
          CASE call.pc = "clean_up_start" ->
                 /\ UNCHANGED zk
                 /\ call' = IF ok THEN [call EXCEPT !.pc = "exists"] ELSE logged
            [] call.pc = "exists" ->
                 /\ UNCHANGED zk
                 /\ call' = IF ~ok THEN logged
                            ELSE IF zk[ServicePath].exists
                            THEN [call EXCEPT !.pc = "delete"]
                            ELSE returns
            [] call.pc = "delete" ->
                 IF ok /\ zk[ServicePath].exists
                 THEN /\ zk' = [zk EXCEPT ![ServicePath] =
                                  [exists |-> FALSE, data |-> ""]]
                      /\ call' = returns
                 ELSE /\ UNCHANGED zk
                      /\ call' = logged
            [] OTHER -> FALSE
    /\ UNCHANGED <<isvc, lb, external, ingress, proc, api>>

\* Another replica registers itself at the same path while this one
\* registers or serves.
OtherReplicaRegisters ==
    /\ call.fn = "lifespan"
    /\ call.pc \in {"zk_start", "ensure_path", "set", "get", "registered",
                    "serving"}
    /\ zk[ServicePath] # [exists |-> TRUE, data |-> OtherAddress]
    /\ zk' = [zk EXCEPT ![ServicePath] = [exists |-> TRUE, data |-> OtherAddress]]
    /\ UNCHANGED <<isvc, lb, external, ingress, proc, api, call>>

NextLifespan ==
    \/ lifespan
    \/ register_with_zookeeper
    \/ clean_up_zk
    \/ OtherReplicaRegisters

SpecLifespan == InitLifespan /\ [][NextLifespan]_vars

\* ------------------------------------------- the discovery-store dump
\* ZKManager.get_model_info(f"/models/{stage}"): one entry per child of the
\* path; a payload that is not JSON is listed with the raw value as cluster_ip;
\* the status is "active" for the active path and "warming" for any other.
get_model_info(stage) ==
    {[model_id |-> path[2],
      model_name |-> IF zk[path].data.fmt = "json" THEN zk[path].data.model_name
                     ELSE "Unknown Model",
      cluster_ip |-> zk[path].data.ip,
      status |-> IF stage = "active" THEN "active" ELSE "warming"] :
        path \in {q \in DOMAIN zk : q[1] = stage /\ zk[q].exists}}

\* ZKManager.get_all_models: the warming and the active path.
get_all_models ==
    [key \in {"warming", "active"} |-> get_model_info(key)]

\* `models.get(key, [])`
models_get(models, key) ==
    IF key \in DOMAIN models THEN models[key] ELSE {}

\* GET /zk-info: the three lists taken from get_all_models; any exception
\* becomes an HTTPException 500.
zk_info(ok) ==
    IF ok
    THEN [raised |-> FALSE,
          warming_models |-> models_get(get_all_models, "warming"),
          active_models |-> models_get(get_all_models, "active"),
          cooling_models |-> models_get(get_all_models, "cooling")]
    ELSE [raised |-> TRUE, warming_models |-> {}, active_models |-> {},
          cooling_models |-> {}]

\* Any znodes of two models, as earlier requests may have left them.
InitZkInfo ==
    /\ \E kind \in [Stages \X {"A", "B"} -> ZnodeKinds] :
          zk = [path \in Stages \X {"A", "B"} |->
                  ZnodeOf(kind[path], path[1], path[2])]
    /\ isvc = <<>>
    /\ lb = <<>>
    /\ external = <<>>
    /\ ingress = <<>>
    /\ proc = <<>>
    /\ api = BOOLEAN
    /\ call = [fn |-> "zk_info", returned |-> FALSE, result |-> zk_info(FALSE)]

zk_info_returns ==
    /\ call.fn = "zk_info"
    /\ ~call.returned
    /\ \E ok \in api :
          call' = [call EXCEPT !.returned = TRUE, !.result = zk_info(ok)]
    /\ UNCHANGED <<zk, isvc, lb, external, ingress, proc, api>>

NextZkInfo == zk_info_returns

SpecZkInfo == InitZkInfo /\ [][NextZkInfo]_vars

\* ------------------------------------------- _parse_memory
\* A memory string is the decimal digits of a number followed by letters.
MemoryLetters == {"K", "k", "M", "G", "T", "P", "E", "i", "X"}

MemoryNumbers == {0, 1, 5, 2362, 2363}

\* A number c * 2^a * 5^b in its normal form: c has no factor 2 and no factor
\* 5 left, and zero is written 0 * 2^0 * 5^0. The products of _parse_memory do
\* not fit the integers of the checker, their factors do.
RECURSIVE Quantity(_, _, _)
Quantity(c, a, b) ==
    IF c = 0 THEN [coef |-> 0, pow2 |-> 0, pow5 |-> 0]
    ELSE IF c % 2 = 0 THEN Quantity(c \div 2, a + 1, b)
    ELSE IF c % 5 = 0 THEN Quantity(c \div 5, a, b + 1)
    ELSE [coef |-> c, pow2 |-> a, pow5 |-> b]

\* The largest c for which c * 5^b is below 2^53, the odd part that a double
\* holds exactly; below 5^15 every coefficient of the checker's integers fits.
DoubleOddLimit(b) ==
    CASE b < 15 -> 2147483647
      [] b = 15 -> 295147
      [] b = 16 -> 59029
      [] b = 17 -> 11805
      [] b = 18 -> 2361
      [] b = 19 -> 472
      [] b = 20 -> 94
      [] b = 21 -> 18
      [] b = 22 -> 3
      [] OTHER -> 0

\* `int(x)` of the double x that the chain of multiplications gives: the
\* product itself when a double holds it, another integer otherwise.
int_of_double(q) ==
    IF q.coef <= DoubleOddLimit(q.pow5)
    THEN [raised |-> FALSE, exact |-> TRUE, value |-> q]
    ELSE [raised |-> FALSE, exact |-> FALSE, value |-> q]

ValueError == [raised |-> TRUE, exact |-> TRUE, value |-> Quantity(0, 0, 0)]

\* `memory_str.endswith(t)` for the letters after the digits.
endswith(letters, t) ==
    /\ Len(letters) >= Len(t)
    /\ SubSeq(letters, Len(letters) - Len(t) + 1, Len(letters)) = t

\* `float(memory_str[:-len(t)])`: a ValueError when letters are left before t.
\* Then the multiplications by 1024 (2^10) or by 1000 (2^3 * 5^3), k times.
scaled(n, letters, t, base, k) ==
    IF Len(letters) > Len(t) THEN ValueError
    ELSE IF base = 1024 THEN int_of_double(Quantity(n, 10 * k, 0))
    ELSE int_of_double(Quantity(n, 3 * k, 3 * k))

\* _parse_memory (lines 579-608) of the digits of n followed by letters: the
\* two-letter suffixes first, then the one-letter ones, then the bare number,
\* whose ValueError alone is caught and gives 0.
parse_memory(n, letters) ==
    CASE endswith(letters, <<"K", "i">>) -> scaled(n, letters, <<"K", "i">>, 1024, 1)
      [] endswith(letters, <<"M", "i">>) -> scaled(n, letters, <<"M", "i">>, 1024, 2)
      [] endswith(letters, <<"G", "i">>) -> scaled(n, letters, <<"G", "i">>, 1024, 3)
      [] endswith(letters, <<"T", "i">>) -> scaled(n, letters, <<"T", "i">>, 1024, 4)
      [] endswith(letters, <<"P", "i">>) -> scaled(n, letters, <<"P", "i">>, 1024, 5)
      [] endswith(letters, <<"E", "i">>) -> scaled(n, letters, <<"E", "i">>, 1024, 6)
      [] endswith(letters, <<"K">>) \/ endswith(letters, <<"k">>) ->
            scaled(n, letters, <<"K">>, 1000, 1)
      [] endswith(letters, <<"M">>) -> scaled(n, letters, <<"M">>, 1000, 2)
      [] endswith(letters, <<"G">>) -> scaled(n, letters, <<"G">>, 1000, 3)
      [] endswith(letters, <<"T">>) -> scaled(n, letters, <<"T">>, 1000, 4)
      [] endswith(letters, <<"P">>) -> scaled(n, letters, <<"P">>, 1000, 5)
      [] endswith(letters, <<"E">>) -> scaled(n, letters, <<"E">>, 1000, 6)
      [] OTHER -> IF letters = <<>> THEN int_of_double(Quantity(n, 0, 0))
                  ELSE int_of_double(Quantity(0, 0, 0))

InitMemory ==
    /\ InitWorld({}, {}, BOOLEAN)
    /\ call \in [fn : {"_parse_memory"}, n : MemoryNumbers,
                 letters : SeqsUpTo(MemoryLetters, MaxSuffix),
                 returned : {FALSE}, result : {ValueError}]

parse_memory_returns ==
    /\ call.fn = "_parse_memory"
    /\ ~call.returned
    /\ call' = [call EXCEPT !.returned = TRUE,
                            !.result = parse_memory(call.n, call.letters)]
    /\ UNCHANGED <<zk, isvc, lb, external, ingress, proc, api>>

NextMemory == parse_memory_returns

SpecMemory == InitMemory /\ [][NextMemory]_vars

\* ------------------------------- a Stop during the readiness gate of a Start
\* POST /stop arriving while the Start of the same model_id waits in
\* wait_for_model_ready: start_model runs in a worker thread (asyncio.to_thread)
\* and stop_model on the event loop, and neither route looks for the other.
stop_model_during_gate(p, id) ==
    /\ proc[p].op = "none"
    /\ \E q \in Workers : /\ proc[q].op = "start"
                          /\ proc[q].model_id = id
                          /\ InFn(q, "wait_for_model_ready")
    /\ Step(p, Call([Idle EXCEPT !.op = "stop", !.phase = "register",
                                 !.model_id = id, !.model_name = ModelName(id),
                                 !.in_flight = zk_exists(Path("cooling", id)),
                                 !.served = proc[p].served],
                    "register_cooling_model"))
    /\ UNCHANGED <<zk, isvc, lb, external, ingress, api, call>>

\* Two workers and one model, nothing deployed; ZooKeeper and the cluster API
\* answer every call.
InitDuringGate == InitOf({"w1", "w2"}, {"A"}, {TRUE})

\* One Start and one Stop of the same model, the Stop beginning during the
\* gate; from then on the steps of the two requests interleave.
NextDuringGate ==
    \/ \E id \in ModelIds : start_model("w1", id)
    \/ \E id \in ModelIds : stop_model_during_gate("w2", id)
    \/ \E n \in ModelNames : AssignAddress(n)
    \/ \E p \in Workers : register_warming_model(p)
    \/ \E p \in Workers : apply_yaml(p)
    \/ \E p \in Workers : create_load_balancer(p)
    \/ \E p \in Workers : wait_for_model_ready(p)
    \/ \E p \in Workers : register_active_model(p)
    \/ \E p \in Workers : cleanup_deployment(p)
    \/ \E p \in Workers : register_cooling_model(p)
    \/ \E p \in Workers : remove_inference_service(p)
    \/ \E p \in Workers : remove_load_balancer(p)
    \/ \E p \in Workers : unregister_warming_model(p)
    \/ \E p \in Workers : unregister_active_model(p)
    \/ \E p \in Workers : unregister_cooling_model(p)
    \/ \E p \in Workers : restore_original_state(p)

SpecDuringGate == InitDuringGate /\ [][NextDuringGate]_vars

\* -------------------------------------- a Start of a model already deployed
\* The model is deployed and registered active, as a successful Start leaves
\* it (register_active_model, lines 169-174); every call may fail.
InitRedeploy ==
    /\ zk = [path \in Stages \X {"A"} |->
               IF path[1] = "active" THEN Deployed("A") ELSE NoNode]
    /\ isvc = [n \in {ModelName("A")} |-> [exists |-> TRUE, model_id |-> "A"]]
    /\ lb = [n \in {ModelName("A")} |-> [exists |-> TRUE, addr |-> "10.0.0.1", model_id |-> "A"]]
    /\ external = [n \in {ModelName("A")} |-> FALSE]
    /\ ingress = [n \in {ModelName("A")} |-> FALSE]
    /\ proc = [p \in {"w1"} |-> Idle]
    /\ api = BOOLEAN
    /\ call = NoCall

\* One Start of the deployed model, run to its end. (The load balancer keeps
\* its address when it is replaced, and active_registered is set only by the
\* last forward step, so no address is assigned and cleanup_deployment never
\* calls unregister_active_model.)
NextRedeploy ==
    \/ \E p \in Workers, id \in ModelIds : start_model(p, id)
    \/ \E p \in Workers : register_warming_model(p)
    \/ \E p \in Workers : apply_yaml(p)
    \/ \E p \in Workers : create_load_balancer(p)
    \/ \E p \in Workers : wait_for_model_ready(p)
    \/ \E p \in Workers : register_active_model(p)
    \/ \E p \in Workers : cleanup_deployment(p)
    \/ \E p \in Workers : remove_inference_service(p)
    \/ \E p \in Workers : remove_load_balancer(p)
    \/ \E p \in Workers : unregister_warming_model(p)

SpecRedeploy == InitRedeploy /\ [][NextRedeploy]_vars

\* ------------------------------------------- a removal called twice
RemoveOperations ==
    {"remove_inference_service", "remove_load_balancer",
     "remove_external_name_service", "remove_ingress",
     "unregister_warming_model", "unregister_active_model",
     "unregister_cooling_model"}

\* A Deployer of id calls the removal fn, and calls it again when it returned.
remove_twice(p, id, fn) ==
    /\ proc[p].op = "none"
    /\ Step(p, Call([Idle EXCEPT !.op = "twice", !.phase = "first",
                                 !.model_id = id, !.model_name = ModelName(id)],
                    fn))
    /\ UNCHANGED <<zk, isvc, lb, external, ingress, api, call>>

\* Any deployment of the model, whole or partial; the stores answer every call.
InitRemoveTwice ==
    /\ \E kind \in [Stages -> ZnodeKinds] :
          zk = [path \in Stages \X {"A"} |-> ZnodeOf(kind[path[1]], path[1], path[2])]
    /\ isvc \in [{ModelName("A")} -> {NoIsvc, [exists |-> TRUE, model_id |-> "A"]}]
    /\ lb \in [{ModelName("A")} -> {NoLb, [exists |-> TRUE, addr |-> "10.0.0.1", model_id |-> ""]}]
    /\ external \in [{ModelName("A")} -> BOOLEAN]
    /\ ingress \in [{ModelName("A")} -> BOOLEAN]
    /\ proc = [p \in {"w1"} |-> Idle]
    /\ api = {TRUE}
    /\ call = NoCall

NextRemoveTwice ==
    \/ \E p \in Workers, id \in ModelIds, fn \in RemoveOperations :
          remove_twice(p, id, fn)
    \/ \E p \in Workers : remove_inference_service(p)
    \/ \E p \in Workers : remove_load_balancer(p)
    \/ \E p \in Workers : remove_external_name_service(p)
    \/ \E p \in Workers : remove_ingress(p)
    \/ \E p \in Workers : unregister_warming_model(p)
    \/ \E p \in Workers : unregister_active_model(p)
    \/ \E p \in Workers : unregister_cooling_model(p)

SpecRemoveTwice == InitRemoveTwice /\ [][NextRemoveTwice]_vars

\* ============================================================== the claims
StagesOf(id) == {s \in Stages : zk_exists(Path(s, id))}

Returning(p, op, result) ==
    /\ proc[p].pc = "done"
    /\ proc[p].op = op
    /\ proc[p].result = result

\* C1: for every model_id, in every reachable state, the id has a znode under
\* at most one of /models/warming, /models/active and /models/cooling.
AtMostOneStage == \A id \in ModelIds : Cardinality(StagesOf(id)) <= 1

\* C2: whenever Start fails at a forward step and no compensation failed, on
\* return there is no `{name}-lb` service, no InferenceService and no znode of
\* the model_id under warming, active or cooling.
FailedStartLeavesNothing ==
    \A p \in Workers :
        (/\ Returning(p, "start", "error")
         /\ \A i \in 1..Len(proc[p].raises) : proc[p].raises[i][1] # "cleanup")
        => /\ ~lb[proc[p].model_name].exists
           /\ ~isvc[proc[p].model_name].exists
           /\ StagesOf(proc[p].model_id) = {}

\* C3: whenever Start returns success, the `{name}-lb` service and the
\* InferenceService labelled model-id=id exist, and the model_id has exactly
\* one znode, under /models/active, whose ip is `<LB address>:80`.
SuccessfulStartIsComplete ==
    \A p \in Workers :
        Returning(p, "start", "success")
        => LET r == proc[p] IN
           /\ lb[r.model_name].exists
           /\ lb[r.model_name].addr # ""
           /\ isvc[r.model_name].exists
           /\ isvc[r.model_name].model_id = r.model_id
           /\ StagesOf(r.model_id) = {"active"}
           /\ zk[Path("active", r.model_id)].data.ip = Endpoint(lb[r.model_name].addr)

ClusterDeletions == {"remove_inference_service", "remove_load_balancer"}

\* A Stop whose only failure was one cluster deletion of its try block.
DeletionFailedStop(p) ==
    /\ Returning(p, "stop", "error")
    /\ Len(proc[p].raises) = 1
    /\ proc[p].raises[1][1] = "forward"
    /\ proc[p].raises[1][2] \in ClusterDeletions

\* C4: if a cluster deletion fails during the Stop of a model whose original
\* state was active or warming, then on return the znode of the original state
\* holds the payload captured at the beginning of the Stop, the cooling znode
\* is absent and the Stop returns the error.
FailedStopRestoresOriginal ==
    \A p \in Workers :
        (DeletionFailedStop(p) /\ proc[p].original_state # "")
        => LET r == proc[p] IN
           /\ zk[Path(r.original_state, r.model_id)] =
                 [exists |-> TRUE, data |-> r.original_data]
           /\ ~zk_exists(Path("cooling", r.model_id))

\* C5: whenever Stop returns success, the model_id has no znode under warming,
\* active or cooling, and neither the InferenceService nor the `{name}-lb`
\* service of the model exists.
SuccessfulStopRemovesAll ==
    \A p \in Workers :
        Returning(p, "stop", "success")
        => /\ StagesOf(proc[p].model_id) = {}
           /\ ~isvc[proc[p].model_name].exists
           /\ ~lb[proc[p].model_name].exists

\* A Stop of an active, fully deployed model has returned success.
ActiveModelStopped ==
    \E p \in Workers :
        /\ Returning(p, "stop", "success")
        /\ proc[p].original_state = "active"
        /\ proc[p].original_data.fmt = "json"

CoolingRemoved(id) ==
    zk_exists(Path("cooling", id)) /\ ~zk'[Path("cooling", id)].exists

Called(p, fn) == \E i \in 1..Len(proc[p].calls) : proc[p].calls[i] = fn

\* C7 (as stated): in every Stop, on the success path and on the rollback path,
\* the cooling znode is never removed before both cluster deletions
\* (InferenceService removal and LoadBalancer removal) have been attempted.
CoolingRemovedAfterBothDeletions ==
    [][\A id \in ModelIds :
          CoolingRemoved(id)
          => \E p \in Workers :
                /\ proc'[p] # proc[p]
                /\ proc[p].model_id = id
                /\ Called(p, "remove_inference_service")
                /\ Called(p, "remove_load_balancer")]_vars

\* C7 (amended): the cooling znode is never removed before the InferenceService
\* removal has been attempted; on the success path it is removed only after
\* both removals have been attempted and none has raised.
CoolingRemovedAfterDeletionAttempt ==
    [][\A id \in ModelIds :
          CoolingRemoved(id)
          => \E p \in Workers :
                /\ proc'[p] # proc[p]
                /\ proc[p].model_id = id
                /\ proc[p].op = "stop"
                /\ Called(p, "remove_inference_service")
                /\ proc[p].phase = "forward"
                   => /\ Called(p, "remove_load_balancer")
                      /\ proc[p].raises = <<>>]_vars

\* The rollback of a Stop has removed the cooling znode although the
\* LoadBalancer removal was never attempted.
CoolingRemovedInRollback ==
    \E p \in Workers :
        /\ proc[p].op = "stop"
        /\ proc[p].phase = "restore"
        /\ proc[p].fn = "restore_original_state"
        /\ proc[p].pc = "ensure_path"
        /\ ~Called(p, "remove_load_balancer")
        /\ ~zk_exists(Path("cooling", proc[p].model_id))

\* The lifecycle state a reader of the znode hierarchy sees for an id.
LifecycleOf(tree, id) ==
    IF tree[Path("cooling", id)].exists THEN "Cooling"
    ELSE IF tree[Path("warming", id)].exists THEN "Warming"
    ELSE IF tree[Path("active", id)].exists THEN "Active"
    ELSE "Absent"

LifecycleTransitions ==
    {<<"Absent", "Warming">>, <<"Warming", "Active">>, <<"Warming", "Absent">>,
     <<"Active", "Cooling">>, <<"Cooling", "Absent">>, <<"Cooling", "Warming">>,
     <<"Cooling", "Active">>}

\* C8: every change of a model_id's lifecycle state, as seen in the znode
\* hierarchy, is one of Absent->Warming, Warming->Active, Warming->Absent,
\* Active->Cooling, Cooling->Absent, Cooling->Warming, Cooling->Active.
OnlyLifecycleTransitions ==
    [][\A id \in ModelIds :
          LifecycleOf(zk, id) # LifecycleOf(zk', id)
          => <<LifecycleOf(zk, id), LifecycleOf(zk', id)>> \in LifecycleTransitions]_vars

\* C9: when the load balancer has an address but the readiness gate returns
\* false at its deadline, Start goes on to register_active_model; if nothing
\* raises after that, it returns success with the warming znode removed and the
\* active znode holding `<LB address>:80`.
DegradedStartIsPromoted ==
    /\ [][\A p \in Workers :
             (proc[p].fn = "wait_for_model_ready" /\ proc'[p].gate_exit = "deadline")
             => /\ proc'[p].fn = "register_active_model"
                /\ proc'[p].phase = "forward"]_vars
    /\ [](\A p \in Workers :
             (/\ proc[p].pc = "done"
              /\ proc[p].op = "start"
              /\ proc[p].gate_exit = "deadline"
              /\ Len(proc[p].raises) = 0)
             => /\ proc[p].result = "success"
                /\ ~zk_exists(Path("warming", proc[p].model_id))
                /\ zk[Path("active", proc[p].model_id)].data.ip =
                      Endpoint(lb[proc[p].model_name].addr))

\* A Start whose readiness gate timed out with an address has returned success.
DegradedStartSucceeded ==
    \E p \in Workers :
        /\ Returning(p, "start", "success")
        /\ proc[p].gate_exit = "deadline"
        /\ ~proc[p].model_ready
        /\ zk[Path("active", proc[p].model_id)].data.ip =
              Endpoint(lb[proc[p].model_name].addr)

\* C10: when no node pool satisfies the manifest's ask, Start returns an error
\* without having written any znode and without having created or changed any
\* cluster resource.
NoFitStartMutatesNothing ==
    [][\A p \in Workers :
          (proc[p].op = "start" /\ proc[p].no_fit)
          => /\ zk' = zk
             /\ isvc' = isvc
             /\ \A n \in ModelNames : lb'[n].exists = lb[n].exists
             /\ proc'[p].result # "success"]_vars

\* The cluster resources and znodes of id are what one Start of a model that
\* was not deployed leaves: the InferenceService labelled with the id, the
\* `{name}-lb` service with an address, and the active znode alone, holding
\* the kserve payload of that address.
StartedAlone(id) ==
    LET n == ModelName(id) IN
    /\ isvc[n] = [exists |-> TRUE, model_id |-> id]
    /\ lb[n].exists
    /\ lb[n].addr \in Addrs
    /\ zk[Path("active", id)] =
          [exists |-> TRUE,
           data |-> create_zk_data(StartRequest(id), "active", lb[n].addr)]
    /\ zk[Path("warming", id)] = NoNode
    /\ zk[Path("cooling", id)] = NoNode

StartStopStart(p) ==
    /\ Returning(p, "start", "success")
    /\ proc[p].served = <<<<"start", proc[p].model_id, "success">>,
                          <<"stop", proc[p].model_id, "success">>>>

\* C11: a successful Start, then a successful Stop, then a successful Start of
\* the same model leave the cluster resources and the znodes of the model as
\* a single successful Start of a model that was not deployed leaves them
\* (up to the address the cloud gives the load balancer).
StartStopStartIsStart ==
    \A p \in Workers :
        /\ (Returning(p, "start", "success") /\ proc[p].served = <<>>)
           => StartedAlone(proc[p].model_id)
        /\ StartStopStart(p) => StartedAlone(proc[p].model_id)

\* The second Start of a Start, Stop, Start sequence has returned success.
StartStopStartDone == \E p \in Workers : StartStopStart(p)

RaisedIn(p, fn) ==
    \E i \in 1..Len(proc[p].raises) : proc[p].raises[i][2] = fn

\* C12: apply_yaml called twice for the same model gives one InferenceService
\* and no error: the call that finds no object creates it, the call that finds
\* the object patches it, and neither raises while the cluster API answers.
ApplyTwiceCreatesThenPatches ==
    /\ [](\A p \in Workers : ~RaisedIn(p, "apply_yaml"))
    /\ [][\A p \in Workers :
             (proc[p].fn = "apply_yaml" /\ proc'[p].fn = "create_load_balancer")
             => LET n == proc[p].model_name IN
                /\ isvc'[n] = [exists |-> TRUE, model_id |-> proc[p].model_id]
                /\ proc[p].pc = "create" <=> ~isvc[n].exists
                /\ proc[p].pc = "patch" <=> isvc[n].exists]_vars

\* The second Start of a deployed model has applied the manifest again: the
\* first apply_yaml created the InferenceService, this one patched it.
AppliedTwice ==
    \E p \in Workers :
        /\ proc[p].op = "start"
        /\ proc[p].served = <<<<"start", proc[p].model_id, "success">>>>
        /\ proc[p].fn = "create_load_balancer"
        /\ proc[p].raises = <<>>
        /\ isvc[proc[p].model_name].exists

\* C13: a removal (remove_inference_service, remove_load_balancer,
\* remove_external_name_service, remove_ingress, unregister_warming_model,
\* unregister_active_model, unregister_cooling_model) called twice in
\* succession returns both times without raising, and the second call changes
\* neither the cluster objects nor the znodes.
RemoveTwiceSucceeds ==
    /\ [](\A p \in Workers :
             proc[p].op = "twice"
             => /\ proc[p].raises = <<>>
                /\ proc[p].result # "error")
    /\ [][\A p \in Workers :
             (proc[p].op = "twice" /\ proc[p].phase = "second")
             => UNCHANGED <<zk, isvc, lb, external, ingress>>]_vars

\* Both calls of unregister_warming_model have returned, for a model that has
\* cluster objects and no warming znode any more.
RemovedTwice ==
    \E p \in Workers :
        /\ proc[p].op = "twice"
        /\ proc[p].pc = "done"
        /\ proc[p].result = "success"
        /\ proc[p].calls = <<"unregister_warming_model", "unregister_warming_model">>
        /\ ~zk_exists(Path("warming", proc[p].model_id))
        /\ zk_exists(Path("active", proc[p].model_id))

\* A pool qualifies for an ask: it has data, its available cpu, memory and gpu
\* are each at least the ask, and it has declared gpus when the ask needs one.
Qualifies(ask, pool) ==
    /\ ~pool.missing
    /\ pool.cpu >= ask.cpu /\ pool.mem >= ask.mem /\ pool.gpu >= ask.gpu
    /\ ask.gpu > 0 => pool.gpu_count # 0

Placed == call.fn = "find_suitable_pool" /\ call.returned

\* C14: find_suitable_pool returns the first pool, in declared order, that
\* qualifies (available cpu, memory and gpu each at least the ask, pools
\* without declared gpus skipped when the ask needs a gpu); it returns no pool
\* exactly when no pool qualifies.
FirstQualifyingPool ==
    Placed
    => LET ask == call.ask
           pools == call.pools IN
       /\ call.pool = 0 <=> \A i \in 1..Len(pools) : ~Qualifies(ask, pools[i])
       /\ call.pool # 0
          => /\ call.pool \in 1..Len(pools)
             /\ Qualifies(ask, pools[call.pool])
             /\ \A j \in 1..(call.pool - 1) : ~Qualifies(ask, pools[j])

\* A gpu ask has been placed on the second pool, past a pool that has the
\* capacity but no declared gpu.
PlacedPastUndeclaredGpuPool ==
    /\ Placed
    /\ call.ask.gpu > 0
    /\ call.pool = 2
    /\ call.pools[1].gpu >= call.ask.gpu
    /\ call.pools[1].cpu >= call.ask.cpu
    /\ call.pools[1].mem >= call.ask.mem
    /\ ~call.pools[1].missing

AtMost(lower, upper) ==
    lower.cpu <= upper.cpu /\ lower.mem <= upper.mem /\ lower.gpu <= upper.gpu

\* C15: placement is monotone: for a fixed inventory, a pool that fits a
\* requirement fits every requirement that is component-wise at most it, so
\* when find_suitable_pool finds a pool for the one it finds a pool for the
\* other.
PlacementIsMonotone ==
    Placed
    => \A lower \in Asks :
          AtMost(lower, call.ask)
          => /\ \A i \in 1..Len(call.pools) :
                   PoolFits(call.ask, call.pools[i]) => PoolFits(lower, call.pools[i])
             /\ call.pool # 0 => find_suitable_pool(lower, call.pools) # 0

\* A gpu ask has been placed on a gpu pool, which then takes the smaller asks
\* without gpu as well.
PlacedGpuAsk ==
    /\ Placed
    /\ call.pool # 0
    /\ call.ask.gpu > 0
    /\ call.ask.cpu > 0
    /\ \E lower \in Asks :
          /\ AtMost(lower, call.ask)
          /\ lower.gpu = 0
          /\ find_suitable_pool(lower, call.pools) = call.pool

Read == call.fn = "_get_zk_data" /\ call.returned

CallerName == IF call.caller.has_model_name THEN call.caller.model_name ELSE "unknown"

LegacyResult(ip) ==
    [raised |-> FALSE, none |-> FALSE, deployment_type |-> "legacy", ip |-> ip,
     model_name |-> CallerName]

\* C16 (as stated): reading a znode whose bytes are not valid JSON never
\* fails and returns {ip: the raw string, model_name: the caller's name or
\* "unknown", deployment_type: "legacy"}; reading a missing znode returns None.
LegacyReadGivesRawString ==
    Read
    => /\ ~call.result.raised
       /\ ~call.node.exists => call.result = None
       /\ (/\ call.node.exists
           /\ ~(decodable(call.node.bytes) /\ json_loads_ok(call.node.bytes)))
          => call.result = LegacyResult(call.node.bytes)

\* C16 (amended): reading a znode never fails. A missing znode gives None, and
\* so does a read that ZooKeeper fails or a value that is not UTF-8; a UTF-8
\* value that is not valid JSON gives {ip: the value without its leading and
\* trailing white space, model_name: the caller's name or "unknown",
\* deployment_type: "legacy"}.
LegacyReadGivesStrippedString ==
    Read
    => /\ ~call.result.raised
       /\ (~call.read_ok \/ ~call.node.exists \/ ~decodable(call.node.bytes))
          => call.result = None
       /\ (/\ call.read_ok
           /\ call.node.exists
           /\ decodable(call.node.bytes)
           /\ ~json_loads_ok(call.node.bytes))
          => /\ call.result = LegacyResult(strip(call.node.bytes))
             /\ call.result.ip = <<>> \/ Head(call.result.ip) \notin Whitespace
             /\ \E i, j \in 0..Len(call.node.bytes) :
                   /\ call.result.ip = SubSeq(call.node.bytes, i + 1, j)
                   /\ \A k \in (1..i) \cup ((j + 1)..Len(call.node.bytes)) :
                         call.node.bytes[k] \in Whitespace

\* A legacy address written with a trailing newline has been read by an object
\* without model_name: the ip is the address alone.
LegacyReadStripped ==
    /\ Read
    /\ call.node.bytes = <<"10.1.2.3", "\n">>
    /\ call.result = [raised |-> FALSE, none |-> FALSE, deployment_type |-> "legacy",
                      ip |-> <<"10.1.2.3">>, model_name |-> "unknown"]

\* The znodes and the cluster objects that belong to a model_id.
Belongings(id) ==
    <<[stage \in Stages |-> zk[Path(stage, id)]], isvc[ModelName(id)],
      lb[ModelName(id)], external[ModelName(id)], ingress[ModelName(id)]>>

StartReturnsOutOfWarming ==
    /\ \A p \in {"w1"} : (proc[p].op = "start") ~> (proc[p].pc = "done")
    /\ [](\A p \in {"w1"} :
             (proc[p].op = "start" /\ proc[p].pc = "done")
             => ~zk_exists(Path("warming", proc[p].model_id)))

\* The compensations of cleanup_deployment in its order, each with the flag of
\* the forward step it undoes.
Compensations ==
    <<<<"unregister_active_model", "active_registered">>,
      <<"remove_load_balancer", "load_balancer_created">>,
      <<"remove_inference_service", "yaml_applied">>,
      <<"unregister_warming_model", "warming_registered">>>>

IsCompensation(fn) == \E i \in 1..Len(Compensations) : Compensations[i][1] = fn

IsFlagged(c, flags) == c[2] \in flags

\* The compensations a request has called so far, in the order of the calls.
CompensationsCalled(p) == SelectSeq(proc[p].calls, IsCompensation)

\* The compensations due for a set of flags, in reverse order of the forward steps.
CompensationsDue(flags) ==
    LET due == SelectSeq(Compensations, LAMBDA c : IsFlagged(c, flags)) IN
    [i \in 1..Len(due) |-> due[i][1]]

IsPrefix(a, b) == Len(a) <= Len(b) /\ a = SubSeq(b, 1, Len(a))

\* The forward step of a flag was called and returned.
StepCompleted(p, step) ==
    /\ Called(p, step)
    /\ \A i \in 1..Len(proc[p].raises) : proc[p].raises[i] # <<"forward", step>>
    /\ proc[p].fn # step \/ proc[p].phase # "forward"

\* C19: when Start fails, compensations run only for the steps whose completed
\* flag was set, in reverse order of the forward steps (unregister active,
\* remove load balancer, remove inference service, unregister warming); a step
\* that did not complete is never compensated.
CompensationsInReverseOrder ==
    \A p \in Workers :
        proc[p].op = "start"
        => /\ proc[p].phase = "forward" => CompensationsCalled(p) = <<>>
           /\ IsPrefix(CompensationsCalled(p), CompensationsDue(proc[p].flags))
           /\ "warming_registered" \in proc[p].flags
              <=> StepCompleted(p, "register_warming_model")
           /\ "yaml_applied" \in proc[p].flags <=> StepCompleted(p, "apply_yaml")
           /\ "load_balancer_created" \in proc[p].flags
              <=> StepCompleted(p, "create_load_balancer")
           /\ "active_registered" \in proc[p].flags
              <=> StepCompleted(p, "register_active_model")

\* A Start that failed in create_load_balancer has compensated apply_yaml and
\* register_warming_model, in that order, and nothing else.
RolledBackTwoSteps ==
    \E p \in Workers :
        /\ Returning(p, "start", "error")
        /\ proc[p].raises = <<<<"forward", "create_load_balancer">>>>
        /\ CompensationsCalled(p) =
              <<"remove_inference_service", "unregister_warming_model">>

CountOf(fn, calls) == Cardinality({i \in 1..Len(calls) : calls[i] = fn})

\* C20: an error raised by a compensation during Start rollback does not keep
\* the remaining compensations from being attempted: when the failed Start
\* returns, every compensation whose flag is set has been attempted exactly
\* once.
EveryDueCompensationAttemptedOnce ==
    \A p \in Workers :
        Returning(p, "start", "error")
        => \A i \in 1..Len(Compensations) :
              CountOf(Compensations[i][1], proc[p].calls) =
                 IF Compensations[i][2] \in proc[p].flags THEN 1 ELSE 0

\* remove_load_balancer raised during a rollback, and remove_inference_service
\* and unregister_warming_model were attempted after it.
RollbackWentOnAfterError ==
    \E p \in Workers :
        /\ Returning(p, "start", "error")
        /\ \E i \in 1..Len(proc[p].raises) :
              proc[p].raises[i] = <<"cleanup", "remove_load_balancer">>
        /\ CompensationsCalled(p) =
              <<"remove_load_balancer", "remove_inference_service",
                "unregister_warming_model">>

\* C21: when Start fails, the error reaches the caller only after every
\* applicable compensation has been attempted, and it is the failure of the
\* forward step even when a compensation raised.
OriginalErrorAfterRollback ==
    \A p \in Workers :
        Returning(p, "start", "error")
        => /\ CompensationsCalled(p) = CompensationsDue(proc[p].flags)
           /\ proc[p].raises # <<>>
           /\ proc[p].raises[1][1] = "forward"
           /\ proc[p].error = proc[p].raises[1]

\* A Start that failed in create_load_balancer has returned that failure
\* although remove_inference_service raised during the rollback.
OriginalErrorKept ==
    \E p \in Workers :
        /\ Returning(p, "start", "error")
        /\ proc[p].raises = <<<<"forward", "create_load_balancer">>,
                              <<"cleanup", "remove_inference_service">>>>
        /\ proc[p].error = <<"forward", "create_load_balancer">>
        /\ Called(p, "unregister_warming_model")

CalledBefore(calls, first, second) ==
    \A j \in 1..Len(calls) :
        calls[j] = second => \E i \in 1..(j - 1) : calls[i] = first

\* Both cluster removals of the request were called and have returned.
BothRemovalsSucceeded(r) ==
    /\ \A fn \in ClusterDeletions :
          /\ \E i \in 1..Len(r.calls) : r.calls[i] = fn
          /\ \A i \in 1..Len(r.raises) : r.raises[i][2] # fn
    /\ r.fn \notin ClusterDeletions

ZnodeRemoved(stage, id) ==
    zk_exists(Path(stage, id)) /\ ~zk'[Path(stage, id)].exists

ClusterObjectDeleted(n) ==
    \/ isvc[n].exists /\ ~isvc'[n].exists
    \/ lb[n].exists /\ ~lb'[n].exists

\* A step of a Stop keeps to the order of the first two parts of C22: the
\* cooling payload is there when a cluster object is deleted, and the
\* InferenceService removal is called before the LoadBalancer removal.
StopStepInOrder(p) ==
    /\ ClusterObjectDeleted(proc[p].model_name)
       => zk[Path("cooling", proc[p].model_id)] =
             [exists |-> TRUE, data |-> create_zk_data(proc[p], "cooling", "")]
    /\ CalledBefore(proc'[p].calls, "register_cooling_model",
                    "remove_inference_service")
    /\ CalledBefore(proc'[p].calls, "remove_inference_service",
                    "remove_load_balancer")

\* C22 (as stated): in every Stop the cooling znode is written before any
\* cluster resource is deleted, the InferenceService removal is attempted
\* before the LoadBalancer removal, and the warming, active and cooling znodes
\* are removed only after both removals have succeeded.
ZnodesRemovedAfterBothRemovals ==
    [][\A p \in Workers :
          (proc[p].op = "stop" /\ proc'[p] # proc[p])
          => /\ StopStepInOrder(p)
             /\ \A stage \in Stages :
                   ZnodeRemoved(stage, proc[p].model_id)
                   => BothRemovalsSucceeded(proc[p])]_vars

\* C22 (amended): in every Stop the cooling znode is written before any
\* cluster resource is deleted and the InferenceService removal is attempted
\* before the LoadBalancer removal; the warming and active znodes are removed
\* only after both removals have succeeded, and the cooling znode is removed
\* only after both have succeeded or, once a step has failed, by the restore.
ZnodesRemovedAfterRemovalsOrInRestore ==
    [][\A p \in Workers :
          (proc[p].op = "stop" /\ proc'[p] # proc[p])
          => /\ StopStepInOrder(p)
             /\ \A stage \in {"warming", "active"} :
                   ZnodeRemoved(stage, proc[p].model_id)
                   => BothRemovalsSucceeded(proc[p]) /\ proc[p].phase = "forward"
             /\ ZnodeRemoved("cooling", proc[p].model_id)
                => \/ /\ BothRemovalsSucceeded(proc[p])
                      /\ proc[p].phase = "forward"
                      /\ proc[p].raises = <<>>
                   \/ /\ proc[p].phase = "restore"
                      /\ proc[p].raises # <<>>
                      /\ proc[p].raises[1][1] = "forward"]_vars

\* The LoadBalancer removal of a Stop raised after the InferenceService was
\* deleted, and the restore has removed the cooling znode.
CoolingRemovedAfterFailedRemoval ==
    \E p \in Workers :
        /\ proc[p].op = "stop"
        /\ proc[p].phase = "restore"
        /\ proc[p].raises = <<<<"forward", "remove_load_balancer">>>>
        /\ proc[p].original_state = "active"
        /\ proc[p].pc = "ensure_path"
        /\ ~zk_exists(Path("cooling", proc[p].model_id))
        /\ ~isvc[proc[p].model_name].exists

ClusterObjectCreated(n) ==
    \/ ~isvc[n].exists /\ isvc'[n].exists
    \/ ~lb[n].exists /\ lb'[n].exists

ZnodeWritten(stage, id) ==
    zk'[Path(stage, id)].exists /\ zk'[Path(stage, id)] # zk[Path(stage, id)]

HasReturned(r, fn) ==
    /\ \E i \in 1..Len(r.calls) : r.calls[i] = fn
    /\ \A i \in 1..Len(r.raises) : r.raises[i] # <<"forward", fn>>
    /\ r.fn # fn

\* C23: in every Start the warming znode is written before any cluster
\* resource is created, the manifest is applied before the load balancer is
\* created, and the active znode is written only after the readiness gate has
\* returned.
StartStepsInProgramOrder ==
    [][\A p \in Workers :
          (proc[p].op = "start" /\ proc'[p] # proc[p])
          => /\ ClusterObjectCreated(proc[p].model_name)
                => /\ HasReturned(proc[p], "register_warming_model")
                   /\ zk[Path("warming", proc[p].model_id)] =
                         [exists |-> TRUE,
                          data |-> create_zk_data(proc[p], "warming", "")]
             /\ (~lb[proc[p].model_name].exists /\ lb'[proc[p].model_name].exists)
                => HasReturned(proc[p], "apply_yaml")
             /\ CalledBefore(proc'[p].calls, "register_warming_model", "apply_yaml")
             /\ CalledBefore(proc'[p].calls, "apply_yaml", "create_load_balancer")
             /\ ZnodeWritten("active", proc[p].model_id)
                => /\ HasReturned(proc[p], "wait_for_model_ready")
                   /\ proc[p].fn = "register_active_model"]_vars

\* A Start has written the active payload after a gate that returned, having
\* created the InferenceService and then the load balancer.
ActiveWrittenAfterGate ==
    \E p \in Workers :
        /\ Returning(p, "start", "success")
        /\ proc[p].calls = <<"register_warming_model", "apply_yaml",
                             "create_load_balancer", "wait_for_model_ready",
                             "register_active_model">>
        /\ zk_exists(Path("active", proc[p].model_id))
        /\ zk[Path("active", proc[p].model_id)].data.fmt = "json"
        /\ isvc[proc[p].model_name].exists
        /\ lb[proc[p].model_name].exists

GateAborted(p) ==
    /\ proc[p].fn = "wait_for_model_ready"
    /\ proc'[p].fn # "wait_for_model_ready"
    /\ proc'[p].gate_exit = "no_address"

GateCountedFailure(p) ==
    /\ proc[p].fn = "wait_for_model_ready"
    /\ proc'[p].fn = "wait_for_model_ready"
    /\ proc'[p].failed = proc[p].failed + 1

\* C24: the readiness gate aborts as soon as acquiring the load balancer's
\* address has failed three consecutive times (no third consecutive failure
\* leaves the gate polling), and only consecutive failures count (an abort is
\* the third failure in a row).
GateAbortsOnThirdConsecutiveFailure ==
    [][\A p \in Workers :
          /\ GateCountedFailure(p) => proc[p].streak + 1 < 3
          /\ GateAborted(p) => proc[p].streak + 1 = 3]_vars

InGate(p) == proc[p].fn = "wait_for_model_ready" /\ proc[p].pc = "poll"

GateReturned(p) == InGate(p) /\ proc'[p].fn # "wait_for_model_ready"

\* C25: wait_for_model_ready always terminates, whatever the load balancer and
\* the health endpoint do: every call of the gate returns; it returns True
\* only on a probe of an address that was answered with a status < 400, False
\* only once the deadline has elapsed or the address-failure limit is hit,
\* and every iteration that does not return brings the deadline nearer.
GateAlwaysReturns ==
    /\ \A p \in {"w1"} : InGate(p) ~> ~InGate(p)
    /\ [][\A p \in Workers :
             /\ (GateReturned(p) /\ proc'[p].model_ready)
                => /\ proc'[p].gate_exit = "ready"
                   /\ proc[p].polls < MaxPolls
                   /\ lb[proc[p].model_name].exists
                   /\ lb[proc[p].model_name].addr # ""
             /\ (GateReturned(p) /\ ~proc'[p].model_ready)
                => \/ proc[p].polls >= MaxPolls
                   \/ proc[p].failed + 1 > FailedLbLimit
             /\ (InGate(p) /\ proc'[p] # proc[p] /\ ~GateReturned(p))
                => /\ proc'[p].polls = proc[p].polls + 1
                   /\ proc'[p].polls <= MaxPolls]_vars

\* The gate has returned False at the deadline after probes that were all
\* answered with an error status.
GateReturnedAtDeadline ==
    \E p \in Workers :
        /\ proc[p].fn = "register_active_model"
        /\ proc[p].gate_exit = "deadline"
        /\ ~proc[p].model_ready
        /\ lb[proc[p].model_name].addr # ""

\* C26: no znode write of a Start or a Stop, the restore of a failed Stop
\* included, stores a legacy bare-IP payload: a payload written under
\* /models/{state}/{id} is the JSON object made by _create_zk_data (the node
\* that ensure_path creates holds no payload yet).
WritersEmitJson ==
    [][\A p \in Workers :
          (proc[p].op \in {"start", "stop"} /\ proc'[p] # proc[p])
          => \A stage \in Stages :
                ZnodeWritten(stage, proc[p].model_id)
                => LET data == zk'[Path(stage, proc[p].model_id)].data IN
                   /\ data.fmt \in {"json", "empty"}
                   /\ data.fmt = "empty"
                      => ~zk_exists(Path(stage, proc[p].model_id))]_vars

\* C28: every cluster object that a Start creates for a model (the
\* InferenceService with its predictor pod template, and the `{model_name}-lb`
\* Service) carries the label model-id of the request's id.
CreatedObjectsCarryModelId ==
    [][\A p \in Workers :
          (proc[p].op = "start" /\ proc'[p] # proc[p])
          => LET n == proc[p].model_name IN
             /\ (~isvc[n].exists /\ isvc'[n].exists)
                => isvc'[n].model_id = proc[p].model_id
             /\ (~lb[n].exists /\ lb'[n].exists)
                => lb'[n].model_id = proc[p].model_id]_vars

\* C27: the manifest apply rejects a fetched manifest whose kind is not
\* InferenceService or whose metadata.name differs from model_name, and then
\* creates or patches no cluster object.
ForeignManifestRejected ==
    (/\ call.fn = "apply_yaml"
     /\ call.returned
     /\ call.fault = "none"
     /\ \/ call.manifest.kind # "InferenceService"
        \/ call.manifest.name # call.model_name)
    => /\ call.result.raised
       /\ call.result.verb = "none"

CreateAnsweredConflict(p) ==
    /\ proc[p].pc = "create"
    /\ proc'[p] # proc[p]
    /\ \/ proc[p].fn = "apply_yaml" /\ isvc[proc[p].model_name].exists
       \/ proc[p].fn = "create_load_balancer" /\ lb[proc[p].model_name].exists

\* C29: when the create of a cluster resource is answered with 409 Conflict
\* because the resource appeared between the existence check and the create,
\* the operation goes on to replace or patch it and the step does not fail.
ConflictFallsThroughToReplace ==
    [][\A p \in Workers :
          CreateAnsweredConflict(p)
          => /\ proc'[p].raises = proc[p].raises
             /\ proc'[p].phase = "forward"
             /\ proc'[p].fn = proc[p].fn
             /\ proc'[p].pc \in {"replace", "patch"}]_vars

\* C30: a Start for a model_id whose warming znode already exists is rejected,
\* and a Stop for a model_id whose cooling znode already exists is rejected,
\* both without mutating any znode or cluster resource: such a request changes
\* nothing and returns an error.
InFlightOperationRejected ==
    [][\A p \in Workers :
          (proc[p].op \in {"start", "stop"} /\ proc[p].in_flight
           /\ proc'[p] # proc[p])
          => /\ UNCHANGED <<zk, isvc, lb, external, ingress>>
             /\ proc'[p].pc = "done" => proc'[p].result = "error"]_vars

PoolsHolding(n) ==
    {i \in 1..Len(call.pools) :
        \E j \in 1..Len(call.result[i]) : call.result[i][j] = n}

PoolsWithAllLabelsOn(n) ==
    {i \in 1..Len(call.pools) : call.pools[i] \subseteq call.nodes[n]}

\* C31: get_nodes_by_pool assigns every node to at most one pool, the first
\* pool in declared order all of whose labels are on the node, and a node that
\* matches no pool to none.
NodeInFirstMatchingPool ==
    (call.fn = "get_nodes_by_pool" /\ call.returned)
    => \A n \in DOMAIN call.nodes :
          /\ Cardinality(PoolsHolding(n)) <= 1
          /\ \A i \in 1..Len(call.pools) :
                Len(SelectSeq(call.result[i], LAMBDA x : x = n)) <= 1
          /\ PoolsHolding(n) =
                IF PoolsWithAllLabelsOn(n) = {} THEN {}
                ELSE {CHOOSE i \in PoolsWithAllLabelsOn(n) :
                          \A j \in PoolsWithAllLabelsOn(n) : i <= j}

\* One node carries the labels of both pools and is in the first; the other
\* node carries the labels of neither and is in none.
NodeMatchingTwoPoolsInFirst ==
    /\ call.fn = "get_nodes_by_pool"
    /\ call.returned
    /\ Len(call.pools) = 2
    /\ call.pools[1] # {} /\ call.pools[2] # {}
    /\ PoolsWithAllLabelsOn("n1") = {1, 2}
    /\ PoolsHolding("n1") = {1}
    /\ PoolsWithAllLabelsOn("n2") = {}
    /\ PoolsHolding("n2") = {}

ServesRegistered ==
    (call.pc \in {"serving", "clean_up_start", "exists", "delete", "stopped"})
    => /\ call.registered
       /\ call.data = OwnAddress
       /\ call.stored = call.data

AbortedWhenNotRegistered ==
    /\ (call.pc = "aborted") <=> (call.pc \notin {"start", "get_node_info",
                                    "zk_start", "ensure_path", "set", "get",
                                    "registered"} /\ ~call.registered)

Listed(stage) ==
    CASE stage = "warming" -> call.result.warming_models
      [] stage = "active" -> call.result.active_models
      [] OTHER -> call.result.cooling_models

\* C33: the dump of zk-info reports, for each of the states warming, active
\* and cooling, every model_id that has a znode under that state, listed under
\* its own state.
DumpListsEveryZnode ==
    (call.fn = "zk_info" /\ call.returned /\ ~call.result.raised)
    => \A path \in DOMAIN zk :
          zk[path].exists
          <=> \E m \in Listed(path[1]) : m.model_id = path[2]

BinarySuffixes ==
    <<<<"K", "i">>, <<"M", "i">>, <<"G", "i">>, <<"T", "i">>, <<"P", "i">>,
      <<"E", "i">>>>

DecimalSuffixes == <<{"K", "k"}, {"M"}, {"G"}, {"T"}, {"P"}, {"E"}>>

Yields(q) ==
    /\ ~call.result.raised
    /\ call.result.exact
    /\ call.result.value = q

\* C34: for every non-negative integer n, _parse_memory of n followed by a
\* suffix yields n * 1024^k for Ki, Mi, Gi, Ti, Pi, Ei (k = 1..6), n * 1000^k
\* for K or k, M, G, T, P, E (k = 1..6), n for a bare number, and 0 for any
\* other suffix.
ParsedMemoryIsScaledNumber ==
    (call.fn = "_parse_memory" /\ call.returned)
    => IF call.letters = <<>> THEN Yields(Quantity(call.n, 0, 0))
       ELSE IF \E k \in 1..6 : call.letters = BinarySuffixes[k]
       THEN \A k \in 1..6 :
               call.letters = BinarySuffixes[k]
               => Yields(Quantity(call.n, 10 * k, 0))
       ELSE IF \E k \in 1..6 : Len(call.letters) = 1
                                 /\ call.letters[1] \in DecimalSuffixes[k]
       THEN \A k \in 1..6 :
               call.letters[1] \in DecimalSuffixes[k]
               => Yields(Quantity(call.n, 3 * k, 3 * k))
       ELSE Yields(Quantity(0, 0, 0))

InFlight(id) ==
    \E p \in Workers : proc[p].model_id = id /\ proc[p].pc # "done"

\* C35: whenever no Start or Stop is in flight for a model and the model's
\* active znode exists, its InferenceService and its LoadBalancer both exist.
ActiveZnodeHasClusterResources ==
    \A id \in ModelIds :
        (~InFlight(id) /\ zk_exists(Path("active", id)))
        => /\ isvc[ModelName(id)].exists
           /\ lb[ModelName(id)].exists

\* C36: no znode /models/{warming|active|cooling}/{id} is ever observable
\* with an empty payload: a reader of the discovery store sees the creation of
\* the znode and the setting of its payload as one step, also when the payload
\* cannot be built.
NoZnodeObservedEmpty ==
    \A stage \in Stages : \A id \in ModelIds :
        zk_exists(Path(stage, id)) => zk[Path(stage, id)].data.fmt # "empty"

\* The Start and the Stop of the model have both returned.
BothReturned(id) ==
    \E p, q \in Workers :
        /\ proc[p].op = "start" /\ proc[p].model_id = id /\ proc[p].pc = "done"
        /\ proc[q].op = "stop" /\ proc[q].model_id = id /\ proc[q].pc = "done"

\* One active znode with the address of the load balancer, and both objects.
CompleteDeployment(id) ==
    /\ StagesOf(id) = {"active"}
    /\ isvc[ModelName(id)].exists
    /\ lb[ModelName(id)].exists
    /\ lb[ModelName(id)].addr # ""
    /\ zk[Path("active", id)].data.fmt = "json"
    /\ zk[Path("active", id)].data.ip = Endpoint(lb[ModelName(id)].addr)

\* C37: when a Stop of a model ran while its Start was blocked in the readiness
\* gate, then once both have returned the model has no znode in any state or it
\* has a complete deployment: one active znode with the load balancer's
\* address, the InferenceService and the LoadBalancer.
StopDuringGateLeavesAllOrNothing ==
    \A id \in ModelIds :
        BothReturned(id) => (StagesOf(id) = {} \/ CompleteDeployment(id))

\* A Start of the model has returned an error.
StartFailed(id) ==
    \E p \in Workers : /\ proc[p].op = "start" /\ proc[p].model_id = id
                       /\ proc[p].pc = "done" /\ proc[p].result = "error"

\* C38: a failed Start deletes no cluster resource and no znode that existed
\* before it began: after a failed Start of a model that was already deployed,
\* the model's active znode, InferenceService and LoadBalancer are still there.
FailedStartKeepsPreviousDeployment ==
    \A id \in ModelIds :
        StartFailed(id) => /\ zk_exists(Path("active", id))
                           /\ isvc[ModelName(id)].exists
                           /\ lb[ModelName(id)].exists

\* A Stop of the model has returned, and the model had neither an active nor
\* a warming znode: register_cooling_model returned without an original state
\* and the Stop removed neither znode.
StopOfUnregisteredReturned(id) ==
    /\ ~zk_exists(Path("active", id))
    /\ ~zk_exists(Path("warming", id))
    /\ \E p \in Workers : /\ proc[p].op = "stop" /\ proc[p].model_id = id
                          /\ proc[p].pc = "done"
                          /\ proc[p].phase # "register"
                          /\ proc[p].original_state = ""

\* C39: a Stop of a model_id that has neither an active nor a warming znode
\* leaves no cooling znode behind when it returns, whether the deletions in the
\* cluster succeeded or failed.
StopOfUnregisteredLeavesNoCooling ==
    \A id \in ModelIds :
        StopOfUnregisteredReturned(id) => ~zk_exists(Path("cooling", id))

====
